---- MODULE Spec2Model ----
(***************************************************************************)
(* DevSquad-AI: the agent orchestrator's turn loop                          *)
(* (backend/agents/orchestrator.py), its approval resume protocol and the   *)
(* pending-change protocol of the file manager                              *)
(* (backend/services/file_manager.py).                                      *)
(*                                                                          *)
(* An agent's response is a sequence of text fragments (tokens), each one   *)
(* cue or block of the wire format at its own offset; the index of a token  *)
(* in the sequence is its offset in the text.                               *)
(***************************************************************************)
EXTENDS Integers, Sequences, FiniteSets, TLC

\* ------------------------------------------------------------- bounds
MaxToks == 2       \* fragments in a response drawn from the whole alphabet
MaxTags == 3       \* fragments in a response made of handoff tags only
MaxTurns == 2      \* largest max_turns argument of process_message_stream
MaxCalls == 2      \* calls of process_message_stream in one behaviour
MaxSteps == 2      \* sum of the max_turns arguments of the calls of one behaviour
MaxFmOps == 2      \* pending changes created in a file-manager behaviour
MaxFmReqs == 3     \* approve and reject requests in a file-manager behaviour
MaxActs == 2       \* fragments in a response made of action cues
MaxClToks == 2     \* fragments in a text given to the checklist functions
MaxCueToks == 3    \* fragments in a text given to _extract_cues on its own
MaxDispToks == 3   \* fragments in a response whose display text is built
MaxTasks == 4      \* stream tasks created on one websocket connection
MaxResults == 3    \* search results of one sub-research query
MaxQueries == 2    \* sub-research queries of one turn
MaxPieces == 4     \* pieces of a text streamed through BaseAgent.think

None == "None"

\* ------------------------------------------------------------- agents
Agents == {"Senior Dev", "Junior Dev", "Unit Tester", "Researcher", "Research Lead", "Summarizer"}

KeyOrder == <<"SENIOR", "JUNIOR", "TESTER", "RESEARCH", "RESEARCHER", "LEAD", "SEARCH", "FILE_SEARCH">>

CueKeys == {KeyOrder[i] : i \in 1..Len(KeyOrder)}

CUE_TO_AGENT ==
  [k \in CueKeys |->
     CASE k = "SENIOR" -> "Senior Dev"
       [] k = "JUNIOR" -> "Junior Dev"
       [] k = "TESTER" -> "Unit Tester"
       [] k = "RESEARCH" -> "Researcher"
       [] k = "RESEARCHER" -> "Researcher"
       [] k = "LEAD" -> "Research Lead"
       [] k = "SEARCH" -> "Search"
       [] k = "FILE_SEARCH" -> "FileSearch"]

\* ------------------------------------------------------------- tokens
\* t: the kind of fragment, v: its payload (cue name, path, query, block name),
\* n: the step number of a checklist update line.
Tok(t, v, n) == [t |-> t, v |-> v, n |-> n]

Tag(k) == Tok("tag", k, 0)                 \* "[->K]"
DoneTok == Tok("done", "", 0)              \* "[DONE]"
NestedDoneTok == Tok("done_nested", "", 0) \* "[DO[DONE]NE]"
PcTok == Tok("pc", "", 0)                  \* "[PROJECT_COMPLETE]"
EditTok(p) == Tok("edit", p, 0)            \* "[EDIT_FILE:p]" and its fenced code block
DeleteTok(p) == Tok("delete", p, 0)        \* "[DELETE_FILE:p]"
ChkTok(b) == Tok("chk", b, 0)              \* "[MISSION_CHECKLIST]" block b
UpdTok(s) == Tok("upd", "", s)             \* "[CHECKLIST_UPDATE]- [x] s. ..[/CHECKLIST_UPDATE]"

\* Token kinds whose text holds an EDIT_FILE / CREATE_FILE cue, and those that
\* hold a fenced code block.
EditCueTypes == {"edit", "editcue"}
CreateCueTypes == {"create", "createcue"}
BlockTypes == {"edit", "create", "code"}

\* ------------------------------------------------------------- _extract_cues
\* A cue is [k, v]: a handoff cue is k = "HANDOFF" with the key of CUE_TO_AGENT
\* as v (the bare key string of the source); every other cue is its prefix k
\* and payload v ("READ:path" is k = "READ", v = path).
Cue(k, v) == [k |-> k, v |-> v]
Hit(p, c) == [pos |-> p, cue |-> c]

Indices(out) == [i \in 1..Len(out) |-> i]

HitsOf(out, types, kind) ==
  LET sel == SelectSeq(Indices(out), LAMBDA i : out[i].t \in types)
  IN [j \in 1..Len(sel) |-> Hit(sel[j], Cue(kind, out[sel[j]].v))]

RECURSIVE TagHits(_, _)
TagHits(out, n) ==
  IF n > Len(KeyOrder) THEN <<>>
  ELSE LET sel == SelectSeq(Indices(out),
                            LAMBDA i : out[i].t = "tag" /\ out[i].v = KeyOrder[n])
       IN [j \in 1..Len(sel) |-> Hit(sel[j], Cue("HANDOFF", KeyOrder[n]))]
          \o TagHits(out, n + 1)

\* (mutation) [DONE] and [PROJECT_COMPLETE] are placed by their first occurrence
LastHit_First(out, types, kind) ==
  LET S == {i \in 1..Len(out) : out[i].t \in types}
  IN IF S = {} THEN <<>>
     ELSE <<Hit(CHOOSE i \in S : \A j \in S : i <= j, Cue(kind, ""))>>

\* content.rfind(..): the last token that holds the text.
LastHit(out, types, kind) ==
  LET S == {i \in 1..Len(out) : out[i].t \in types}
  IN IF S = {} THEN <<>>
     ELSE <<Hit(CHOOSE i \in S : \A j \in S : j <= i, Cue(kind, ""))>>

\* list.sort(key = position): a stable insertion sort.
RECURSIVE InsertHit(_, _)
InsertHit(h, s) ==
  IF s = <<>> THEN <<h>>
  ELSE IF h.pos < Head(s).pos THEN <<h>> \o s
  ELSE <<Head(s)>> \o InsertHit(h, Tail(s))

RECURSIVE SortHits(_)
SortHits(s) ==
  IF s = <<>> THEN <<>>
  ELSE InsertHit(s[Len(s)], SortHits(SubSeq(s, 1, Len(s) - 1)))

InSeq(x, s) == \E i \in 1..Len(s) : s[i] = x

RECURSIVE UniqueCues(_, _)
UniqueCues(hits, acc) ==
  IF hits = <<>> THEN acc
  ELSE UniqueCues(Tail(hits),
                  IF InSeq(Head(hits).cue, acc) THEN acc ELSE Append(acc, Head(hits).cue))

\* "@Junior" is Tok("mention", "JUNIOR", 0); "thanks @Junior" is a fragment of
\* kind "thanked", which the thank-you test skips. "[EDIT_FILE:foo" with no "]"
\* after it is a fragment of kind "open", which no pattern matches.
CueHits(out) ==
  TagHits(out, 1)
  \o HitsOf(out, {"mention"}, "HANDOFF")
  \o HitsOf(out, EditCueTypes, "EDIT")
  \o HitsOf(out, CreateCueTypes, "CREATE")
  \o HitsOf(out, {"search"}, "SEARCH")
  \o HitsOf(out, {"fsearch"}, "FILE_SEARCH")
  \o HitsOf(out, {"delete"}, "DELETE")
  \o HitsOf(out, {"read"}, "READ")
  \o HitsOf(out, {"readurl"}, "READ_URL")
  \o HitsOf(out, {"subres"}, "SUB_RESEARCH")
  \o HitsOf(out, {"runcmd"}, "RUN_COMMAND")
  \o HitsOf(out, {"runtests"}, "RUN_TESTS")
  \o LastHit(out, {"done", "done_nested"}, "DONE")
  \o LastHit(out, {"pc"}, "PROJECT_COMPLETE")

_extract_cues(out) == UniqueCues(SortHits(CueHits(out)), <<>>)

HasCue(cues, k) == \E i \in 1..Len(cues) : cues[i].k = k

\* [c for c in cues if c in self.CUE_TO_AGENT]
CuesForHandoff(cues) ==
  LET hs == SelectSeq(cues, LAMBDA c : c.k = "HANDOFF" /\ c.v \in CueKeys)
  IN [i \in 1..Len(hs) |-> hs[i].v]

\* the payload of the first cue that starts with the prefix, or None
FirstCue(cues, k) ==
  LET hs == SelectSeq(cues, LAMBDA c : c.k = k)
  IN IF hs = <<>> THEN None ELSE hs[1].v

\* ------------------------------------------------------------- checklist
\* The [MISSION_CHECKLIST] blocks an agent writes in this model: block "A" is
\* "Mission: m / - [x] 1. a (->JUNIOR) / - [ ] 2. b"; block "B" is
\* "Mission: n / - [ ] 3. c (->TESTER)"; block "D" is
\* "Mission: m / - [ ] 1. a / - [ ] 1. b", whose two lines carry the same
\* number; block "E" holds the mission line and no item line.
Item(s, d, a, dn) == [step |-> s, description |-> d, agent |-> a, done |-> dn]

BlockNames == {"A", "B", "D", "E"}

ChecklistBlocks ==
  [b \in BlockNames |->
     CASE b = "A" -> [mission |-> "m",
                      items |-> <<Item(1, "a", "JUNIOR", TRUE), Item(2, "b", "SENIOR", FALSE)>>]
       [] b = "B" -> [mission |-> "n", items |-> <<Item(3, "c", "TESTER", FALSE)>>]
       [] b = "D" -> [mission |-> "m",
                      items |-> <<Item(1, "a", "SENIOR", FALSE), Item(1, "b", "SENIOR", FALSE)>>]
       [] OTHER -> [mission |-> "m", items |-> <<>>]]

\* re.search: the first block of the text. The checklist and the description
\* are reset before the lines are read; True only when an item was parsed.
_extract_mission_checklist(out, checklist, description) ==
  LET S == {i \in 1..Len(out) : out[i].t = "chk"}
  IN IF S = {}
     THEN [found |-> FALSE, checklist |-> checklist, description |-> description]
     ELSE LET b == ChecklistBlocks[out[CHOOSE i \in S : \A j \in S : i <= j].v]
          IN [found |-> b.items # <<>>, checklist |-> b.items, description |-> b.mission]

\* (mutation) a "- [x] N." line marks every item that carries the number
MarkStep_AllWithStep(checklist, n) ==
  [i \in 1..Len(checklist) |->
     IF checklist[i].step = n THEN [checklist[i] EXCEPT !.done = TRUE] ELSE checklist[i]]

\* one "- [x] N." line: the first item with that step that is not done
MarkStep(checklist, n) ==
  LET S == {i \in 1..Len(checklist) : checklist[i].step = n /\ ~checklist[i].done}
  IN IF S = {} THEN checklist
     ELSE LET k == CHOOSE i \in S : \A j \in S : i <= j
          IN [checklist EXCEPT ![k].done = TRUE]

RECURSIVE ApplyUpdates(_, _, _)
ApplyUpdates(out, checklist, applied) ==
  IF out = <<>> THEN [n |-> applied, checklist |-> checklist]
  ELSE IF Head(out).t = "upd"
       THEN LET c2 == MarkStep(checklist, Head(out).n)
            IN ApplyUpdates(Tail(out), c2, IF c2 = checklist THEN applied ELSE applied + 1)
       ELSE ApplyUpdates(Tail(out), checklist, applied)

_extract_checklist_updates(out, checklist) == ApplyUpdates(out, checklist, 0)

_is_checklist_complete(checklist) ==
  IF checklist = <<>> THEN TRUE
  ELSE \A i \in 1..Len(checklist) : checklist[i].done

IncompleteSteps(checklist) ==
  LET inc == SelectSeq(checklist, LAMBDA it : ~it.done)
  IN [i \in 1..Len(inc) |-> inc[i].step]

\* ------------------------------------------------------------- file edits
\* _extract_all_edits: every EDIT/CREATE cue with the first code block after
\* it, unless another EDIT/CREATE cue lies between the cue and that block.
EditOf(out, i) ==
  LET action == IF out[i].t \in EditCueTypes THEN "edit" ELSE "create"
      B == {j \in i..Len(out) : out[j].t \in BlockTypes /\ (j = i \/ j > i)}
  IN IF B = {} THEN <<>>
     ELSE LET j == CHOOSE x \in B : \A y \in B : x <= y
          IN IF j = i
                \/ (out[j].t = "code"
                    /\ \A k \in (i + 1)..(j - 1) : out[k].t \notin (EditCueTypes \cup CreateCueTypes))
             THEN <<[action |-> action, path |-> out[i].v, content |-> "new", cue |-> i, block |-> j]>>
             ELSE <<>>

RECURSIVE EditsFrom(_, _)
EditsFrom(out, i) ==
  IF i > Len(out) THEN <<>>
  ELSE (IF out[i].t \in (EditCueTypes \cup CreateCueTypes) THEN EditOf(out, i) ELSE <<>>)
       \o EditsFrom(out, i + 1)

_extract_all_edits(out) == EditsFrom(out, 1)

\* re.finditer(delete_pattern, full_response): every occurrence, in order
DeletesOf(out) == SelectSeq(Indices(out), LAMBDA i : out[i].t = "delete")

\* ------------------------------------------------------------- state
VARIABLES
  \* AgentOrchestrator
  mission_status, handoff_queue, last_handoff, mission_checklist,
  mission_description, conversation, stop_event,
  \* one call of process_message_stream: its position and locals
  pc, current_agent_name, current_message, turn, max_turns, events, last_turn, calls,
  granted,
  \* the result of the latest handle_approval_signal
  approval,
  \* FileManager, the files of the workspace, and the approve / reject requests
  workspace_path, files, pending_changes, next_id, applying, fm_log,
  \* the latest application of one of the orchestrator's functions on its own
  probe

orch_vars == <<mission_status, handoff_queue, last_handoff, mission_checklist,
               mission_description, conversation, stop_event>>
call_vars == <<pc, current_agent_name, current_message, turn, max_turns, events, last_turn,
               calls, granted>>
fm_vars == <<workspace_path, files, pending_changes, next_id>>
req_vars == <<applying, fm_log, probe>>
vars == <<orch_vars, call_vars, approval, fm_vars, req_vars>>

\* ------------------------------------------------------------- values
Msg(kind, steps) == [kind |-> kind, steps |-> steps]
Ev(type, a, b, c, n) == [type |-> type, a |-> a, b |-> b, c |-> c, n |-> n]

AgentStart(agent, t) == Ev("agent_start", agent, "", "", t)
Handoff(from, to, cue) == Ev("handoff", from, to, cue, 0)
AgentDone(agent, message) == Ev("agent_done", agent, message, "", 0)
AgentStatus(agent, what) == Ev("agent_status", agent, what, "", 0)
FileChange(agent, path, action, id) == Ev("file_change", agent, path, action, id)
Complete(message, turns) == Ev("complete", "", message, "", turns)
StreamError(agent) == Ev("error", agent, "", "", 0)

\* Message(agent, content, cues): of the content, the two substring tests
\* handle_approval_signal makes on it.
Message(agent, done, project_complete) == [agent |-> agent, done |-> done, pc |-> project_complete]

NoTurn == [kind |-> "none", agent |-> None, turn |-> 0, out |-> <<>>, cues |-> <<>>,
           status |-> "IDLE", queue |-> <<>>, checklist0 |-> <<>>, checklist |-> <<>>,
           created |-> 0, stopped |-> FALSE, failed |-> FALSE, conv0 |-> <<>>,
           at |-> "turn"]
\* The latest handle_approval_signal: its arguments, its answer, and the
\* fields and the finished turn it found.
NoApproval == [called |-> FALSE, approved |-> FALSE, feedback |-> None, next_agent |-> None,
               message |-> Msg("none", <<>>), status |-> "IDLE",
               queue |-> <<>>, last_handoff |-> None, conv |-> <<>>, checklist |-> <<>>,
               turn |-> NoTurn]

NoProbe == [op |-> "none"]

\* ------------------------------------------------------------- FileManager
Paths == {"a.py", "b.py"}          \* paths inside the workspace root
OutsidePath == "../x.py"           \* resolves outside the root: _sanitize_path raises
Absent == "<absent>"

\* create_pending_change returns normally: _sanitize_path accepts the path and
\* relative_to(self.workspace_path) has a workspace to relate to.
CreateOk(path, ws) == path \in Paths /\ ws # None

PendingChange(id, path, action, new_content, old_content, agent) ==
  [id |-> id, path |-> path, action |-> action, new_content |-> new_content,
   old_content |-> old_content, agent |-> agent]

create_pending_change(id, path, content, agent, action, fs) ==
  LET is_existing == fs[path] # Absent
  IN IF action = "delete"
     THEN PendingChange(id, path, "delete", IF content = None THEN "" ELSE content,
                        IF is_existing THEN fs[path] ELSE None, agent)
     ELSE PendingChange(id, path, IF is_existing THEN "edit" ELSE "create",
                        IF content = None THEN "" ELSE content,
                        IF is_existing THEN fs[path] ELSE None, agent)

\* read_file: None for a missing file and for any exception
read_file(path, fs) == IF path \in Paths /\ fs[path] # Absent THEN fs[path] ELSE None

\* ------------------------------------------------------------- display text
\* _clean_message_for_display on the fragments: the technical tags and the
\* "[File ..: path]" placeholders are removed, "[DONE]" is replaced by "",
\* the four handoff tags of cue_to_mention become @mentions; a cue that came
\* with its code block leaves the block. ("[DO[DONE]NE]" leaves "[DONE]".)
RemovedTypes == {"done", "read", "search", "fsearch", "readurl", "subres",
                 "editcue", "createcue", "delete", "placeholder"}
MentionKeys == {"SENIOR", "JUNIOR", "TESTER", "RESEARCH"}

CleanTok(tk) ==
  IF tk.t \in RemovedTypes THEN <<>>
  ELSE IF tk.t \in {"edit", "create"} THEN <<Tok("code", "", 0)>>
  ELSE IF tk.t = "tag" /\ tk.v \in MentionKeys THEN <<Tok("mention", tk.v, 0)>>
  ELSE IF tk.t = "done_nested" THEN <<DoneTok>>
  ELSE <<tk>>

RECURSIVE _clean_message_for_display(_)
_clean_message_for_display(out) ==
  IF out = <<>> THEN <<>>
  ELSE CleanTok(Head(out)) \o _clean_message_for_display(Tail(out))

\* One replacement: the fragments from the cue to the end of its block give
\* way to the placeholder.
Replace1(out, from, to) ==
  SubSeq(out, 1, from - 1) \o <<Tok("placeholder", "", 0)>> \o SubSeq(out, to + 1, Len(out))

HasTok(toks, t) == \E i \in 1..Len(toks) : toks[i].t = t

\* The stored content of the turn, as the pairs <<"[DONE]" in content,
\* "[PROJECT_COMPLETE]" in content>> it can have. With two or more
\* replacements the later ones are cut at offsets of the original text out of
\* a text the earlier ones have already changed, so what they remove depends
\* on the characters: either outcome for a tag the text holds.
ContentFlags(out, reps) ==
  IF Len(reps) = 0
  THEN {<<HasTok(_clean_message_for_display(out), "done"),
          HasTok(_clean_message_for_display(out), "pc")>>}
  ELSE IF Len(reps) = 1
  THEN LET c == _clean_message_for_display(Replace1(out, reps[1].from, reps[1].to))
       IN {<<HasTok(c, "done"), HasTok(c, "pc")>>}
  ELSE {<<d, p>> : d \in (IF HasTok(out, "done_nested") THEN BOOLEAN ELSE {FALSE}),
                   p \in (IF HasTok(out, "pc") THEN BOOLEAN ELSE {FALSE})}

\* ------------------------------------------------------------- one turn: file changes
\* The create_pending_change calls of a turn in order: the edits, then the
\* DELETE_FILE cues.
Requests(out) ==
  LET es == _extract_all_edits(out)
      ds == DeletesOf(out)
  IN [i \in 1..Len(es) |-> [action |-> es[i].action, path |-> es[i].path,
                            content |-> es[i].content, from |-> es[i].cue, to |-> es[i].block]]
     \o [i \in 1..Len(ds) |-> [action |-> "delete", path |-> out[ds[i]].v,
                               content |-> None, from |-> ds[i], to |-> ds[i]]]

\* how many of them return before one raises
OkPrefix(reqs, ws) ==
  LET Bad == {i \in 1..Len(reqs) : ~CreateOk(reqs[i].path, ws)}
  IN IF Bad = {} THEN Len(reqs) ELSE (CHOOSE i \in Bad : \A j \in Bad : i <= j) - 1

CreatedChanges(reqs, n, first_id, agent, fs) ==
  {create_pending_change(first_id + i - 1, reqs[i].path, reqs[i].content, agent, reqs[i].action, fs)
     : i \in 1..n}

FileChangeEvents(reqs, n, first_id, agent) ==
  [i \in 1..n |-> FileChange(agent, reqs[i].path, reqs[i].action, first_id + i - 1)]

\* ------------------------------------------------------------- one turn: the branch
\* What a turn decides: whether the loop goes on (cont) or breaks, the agent
\* and the message of the next turn, the orchestrator fields it leaves, the
\* events it emits, and whether the response is logged a second time.
Branch(kind, cont, agent, msg, queue, status, checklist, desc, lh, evs, again) ==
  [kind |-> kind, cont |-> cont, agent |-> agent, msg |-> msg, queue |-> queue,
   status |-> status, checklist |-> checklist, desc |-> desc, lh |-> lh,
   evs |-> evs, again |-> again]

\* The handoff saved for the resume when the turn pauses for file review.
PauseTarget(cues, queue) ==
  LET hs == CuesForHandoff(cues)
  IN IF hs # <<>> THEN CUE_TO_AGENT[hs[1]]
     ELSE IF queue # <<>> THEN queue[1]
     ELSE None

\* "Queue the rest if they aren't already there"
RECURSIVE EnqueueExtras(_, _, _)
EnqueueExtras(extras, queue, cur) ==
  IF extras = <<>> THEN queue
  ELSE LET extra_agent == CUE_TO_AGENT[Head(extras)]
       IN EnqueueExtras(Tail(extras),
                        IF ~InSeq(extra_agent, queue) /\ extra_agent # cur
                        THEN Append(queue, extra_agent) ELSE queue,
                        cur)

\* (mutation) a handoff cue that names the current agent is a handoff like any other
HandoffCheck_SelfIsHandoff(cues, cur, queue) ==
  LET hs == CuesForHandoff(cues)
  IN IF hs = <<>>
     THEN [self |-> FALSE, agent |-> None, cue |-> None, queue |-> queue]
     ELSE [self |-> FALSE, agent |-> CUE_TO_AGENT[hs[1]], cue |-> hs[1],
           queue |-> EnqueueExtras(Tail(hs), queue, cur)]

\* "Check for handoff": self is the handoff to the current agent itself.
HandoffCheck(cues, cur, queue) ==
  LET hs == CuesForHandoff(cues)
  IN IF hs = <<>>
     THEN [self |-> FALSE, agent |-> None, cue |-> None, queue |-> queue]
     ELSE IF CUE_TO_AGENT[hs[1]] # cur
     THEN [self |-> FALSE, agent |-> CUE_TO_AGENT[hs[1]], cue |-> hs[1],
           queue |-> EnqueueExtras(Tail(hs), queue, cur)]
     ELSE [self |-> TRUE, agent |-> None, cue |-> None, queue |-> queue]

\* `if file_read_path:` and the like: the payload of the first cue of the
\* kind is a non-empty string (a payload of blanks or quotes only is stripped
\* to "" by _extract_cues).
Truthy(cues, k) == FirstCue(cues, k) \notin {None, ""}

\* The action cue serviced in the turn, in the order the loop tests them, or
\* None. The SUB_RESEARCH test is on the list of all its payloads.
ServicedAction(cues) ==
  IF Truthy(cues, "READ") THEN "READ"
  ELSE IF Truthy(cues, "FILE_SEARCH") THEN "FILE_SEARCH"
  ELSE IF HasCue(cues, "SUB_RESEARCH") THEN "SUB_RESEARCH"
  ELSE IF Truthy(cues, "READ_URL") THEN "READ_URL"
  ELSE IF Truthy(cues, "SEARCH") THEN "SEARCH"
  ELSE IF Truthy(cues, "RUN_COMMAND") THEN "RUN_COMMAND"
  ELSE IF Truthy(cues, "RUN_TESTS") THEN "RUN_TESTS"
  ELSE None

\* The servicing of an action cue: the status events, the next message, the
\* next agent. res: the collaborator found something.
ActionBranch(cues, cur, msg, queue, status, checklist, desc, lh, fs, res) ==
  LET a == ServicedAction(cues)
      Same(m, evs) == Branch(a, TRUE, cur, m, queue, status, checklist, desc, lh, evs, FALSE)
  IN CASE a = "READ" ->
            Same(Msg(IF read_file(FirstCue(cues, "READ"), fs) = None
                     THEN "read_missing" ELSE "read_content", <<>>),
                 <<AgentStatus("", "read_file")>>)
       [] a = "FILE_SEARCH" ->
            Same(Msg(IF res THEN "files_found" ELSE "files_none", <<>>),
                 <<AgentStatus("", "get_directory")>>)
       [] a = "SUB_RESEARCH" ->
            Branch(a, TRUE, "Summarizer", Msg("synthesize", <<>>), queue, status, checklist,
                   desc, lh,
                   <<AgentStatus("Research Lead", "search_web"), AgentStatus("", "fetch_page")>>,
                   TRUE)
       [] a = "READ_URL" ->
            Same(Msg(IF res THEN "url_content" ELSE "url_failed", <<>>),
                 <<AgentStatus(cur, "fetch_page")>>)
       [] a = "SEARCH" ->
            Same(Msg("search_results", <<>>), <<AgentStatus(cur, "search_and_summarize")>>)
       [] a = "RUN_COMMAND" ->
            Same(Msg(IF res THEN "command_output" ELSE "command_failed", <<>>),
                 <<AgentStatus(cur, "run_command")>>)
       [] a = "RUN_TESTS" ->
            Same(Msg(IF res THEN "tests_output" ELSE "tests_failed", <<>>),
                 <<AgentStatus(cur, "run_tests")>>)

\* (mutation) the queued agent is taken but stays in the queue
DoneBranch_NoPop(cur, msg, queue, status, checklist, desc, lh) ==
  IF queue # <<>>
  THEN Branch("queue_next", TRUE, Head(queue), Msg("previous_agent_said", <<>>),
              queue, status, checklist, desc, lh,
              <<Handoff(cur, Head(queue), "QUEUE_NEXT")>>, FALSE)
  ELSE Branch("done", FALSE, cur, msg, queue, status, checklist, desc, lh,
              <<AgentDone(cur, "Turn complete")>>, FALSE)

\* "Check for done" when no handoff is pending: the next queued agent, or stop.
DoneBranch(cur, msg, queue, status, checklist, desc, lh) ==
  IF queue # <<>>
  THEN Branch("queue_next", TRUE, Head(queue), Msg("previous_agent_said", <<>>),
              Tail(queue), status, checklist, desc, lh,
              <<Handoff(cur, Head(queue), "QUEUE_NEXT")>>, FALSE)
  ELSE Branch("done", FALSE, cur, msg, queue, status, checklist, desc, lh,
              <<AgentDone(cur, "Turn complete")>>, FALSE)

\* From "Check for handoff" to the end of the loop body.
CueBranch(cues, cur, msg, queue, status, checklist, desc, lh) ==
  LET h == HandoffCheck(cues, cur, queue)
  IN IF h.self
     THEN Branch("self_handoff", TRUE, cur, msg, queue, status, checklist, desc, lh, <<>>, FALSE)
     ELSE IF HasCue(cues, "PROJECT_COMPLETE")
     THEN IF ~_is_checklist_complete(checklist)
          THEN Branch("complete_blocked", TRUE, cur,
                      Msg("incomplete", IncompleteSteps(checklist)),
                      h.queue, status, checklist, desc, lh, <<>>, FALSE)
          ELSE Branch("project_complete", FALSE, cur, msg, <<>>, "IDLE", <<>>, "", lh,
                      <<AgentDone(cur, "Mission Accomplished")>>, FALSE)
     ELSE IF HasCue(cues, "DONE") /\ h.agent = None
     THEN DoneBranch(cur, msg, h.queue, status, checklist, desc, lh)
     ELSE IF h.agent # None
     THEN Branch("handoff", TRUE, h.agent, Msg("previous_agent_said", <<>>),
                 h.queue, status, checklist, desc, lh,
                 <<Handoff(cur, h.agent, h.cue)>>, FALSE)
     ELSE Branch("no_handoff", FALSE, cur, msg, h.queue, status, checklist, desc, lh,
                 <<AgentDone(cur, "Response complete")>>, FALSE)

\* (mutation) the action cues are serviced before the pause for file review
TurnBranch_ActionFirst(cues, proposed, cur, msg, queue, status, checklist, desc, lh, fs, res) ==
  IF ServicedAction(cues) # None
  THEN ActionBranch(cues, cur, msg, queue, status, checklist, desc, lh, fs, res)
  ELSE IF proposed
  THEN Branch("pause", FALSE, cur, msg, queue, status, checklist, desc,
              PauseTarget(cues, queue),
              <<AgentDone(cur, "Pausing for file review")>>, FALSE)
  ELSE CueBranch(cues, cur, msg, queue, status, checklist, desc, lh)

\* The loop body after the response is logged.
TurnBranch(cues, proposed, cur, msg, queue, status, checklist, desc, lh, fs, res) ==
  IF proposed
  THEN Branch("pause", FALSE, cur, msg, queue, status, checklist, desc,
              PauseTarget(cues, queue),
              <<AgentDone(cur, "Pausing for file review")>>, FALSE)
  ELSE IF ServicedAction(cues) # None
  THEN ActionBranch(cues, cur, msg, queue, status, checklist, desc, lh, fs, res)
  ELSE CueBranch(cues, cur, msg, queue, status, checklist, desc, lh)

\* ------------------------------------------------------------- responses
TagKeys == {"SENIOR", "JUNIOR", "RESEARCH", "RESEARCHER", "SEARCH"}

Sigma ==
  {Tag(k) : k \in TagKeys \ {"RESEARCHER"}}
  \cup {DoneTok, NestedDoneTok, PcTok, EditTok("a.py"), Tok("editcue", "a.py", 0),
        ChkTok("A"), UpdTok(2), Tok("read", "a.py", 0)}

SeqsUpTo(S, n) == UNION {[1..k -> S] : k \in 0..n}

\* The responses of an agent: up to MaxToks fragments of any kind.
Outputs == SeqsUpTo(Sigma, MaxToks)

\* Responses made of handoff tags and [DONE] only, up to MaxTags fragments.
TagOutputs == SeqsUpTo({Tag(k) : k \in TagKeys} \cup {DoneTok}, MaxTags)

\* The collaborator results that matter to the response.
Results(out) ==
  IF ServicedAction(_extract_cues(out)) \in {"FILE_SEARCH", "READ_URL", "RUN_COMMAND", "RUN_TESTS"}
  THEN BOOLEAN ELSE {TRUE}

\* A response with what the turn extracts from it, the collaborator's result
\* and the stored content's flags.
ResponsesOf(outs) ==
  {[out |-> out, cues |-> _extract_cues(out), reqs |-> Requests(out), res |-> res, flags |-> flags]
     : <<out, res, flags>> \in
         UNION {{<<o, r, f>> : r \in Results(o), f \in ContentFlags(o, Requests(o))}
                  : o \in outs}}

\* Responses made of action cues, with a handoff tag and a file edit. The
\* payload is the one _extract_cues keeps: "" for "[SEARCH: ]", "[SEARCH:\"\"]"
\* and the like, whose text is stripped of blanks and quotes.
ActionSigma ==
  {Tok("read", "a.py", 0), Tok("fsearch", "py", 0), Tok("fsearch", "", 0),
   Tok("subres", "q", 0), Tok("readurl", "u", 0), Tok("readurl", "", 0),
   Tok("search", "q", 0), Tok("search", "", 0), Tok("runcmd", "c", 0),
   Tok("runtests", "t", 0), Tag("JUNIOR"), EditTok("a.py")}

ActionOutputs == SeqsUpTo(ActionSigma, MaxActs)

Responses == ResponsesOf(Outputs)
ActionResponses == ResponsesOf(ActionOutputs)
TagResponses == ResponsesOf(TagOutputs)

\* _select_initial_agent(message) for the user's messages of this model
FreshAgents == {"Senior Dev", "Junior Dev"}

\* ------------------------------------------------------------- actions
Init ==
  /\ mission_status = "IDLE"
  /\ handoff_queue = <<>>
  /\ last_handoff = None
  /\ mission_checklist = <<>>
  /\ mission_description = ""
  /\ conversation = <<>>
  /\ stop_event = FALSE
  /\ pc = "idle"
  /\ current_agent_name = None
  /\ current_message = Msg("none", <<>>)
  /\ turn = 0
  /\ max_turns = 0
  /\ events = <<>>
  /\ last_turn = NoTurn
  /\ calls = 0
  /\ granted = 0
  /\ approval = NoApproval
  /\ workspace_path = None
  /\ files = [p \in Paths |-> IF p = "a.py" THEN "old" ELSE Absent]
  /\ pending_changes = {}
  /\ next_id = 1
  /\ applying = <<>>
  /\ fm_log = <<>>
  /\ probe = NoProbe

\* process_message_stream(message, context, max_turns, initial_agent) up to
\* the loop: lines 496-521.
Begin(agent, message, mt) ==
  /\ pc \in {"idle", "crashed"}
  /\ calls < MaxCalls
  /\ granted + mt <= MaxSteps
  /\ calls' = calls + 1
  /\ granted' = granted + mt
  /\ IF mission_status = "IDLE"
     THEN /\ conversation' = <<>>
          /\ handoff_queue' = <<>>
          /\ mission_status' = "IN_PROGRESS"
          /\ events' = <<AgentStatus("", "Initializing mission")>>
     ELSE /\ UNCHANGED <<conversation, handoff_queue, mission_status>>
          /\ events' = <<>>
  /\ stop_event' = FALSE
  /\ current_agent_name' = agent
  /\ current_message' = message
  /\ turn' = 0
  /\ max_turns' = mt
  /\ pc' = "top"
  /\ last_turn' = NoTurn
  /\ approval' = NoApproval
  /\ UNCHANGED <<last_handoff, mission_checklist, mission_description, fm_vars, req_vars>>

\* a chat message of the user
StartCall ==
  \E agent \in FreshAgents, mt \in 0..MaxTurns : Begin(agent, Msg("user", <<>>), mt)

\* the stream started with the result of handle_approval_signal (main.py 465-482)
ResumeCall ==
  /\ approval.called
  /\ approval.next_agent # None
  /\ \E mt \in 0..MaxTurns : Begin(approval.next_agent, approval.message, mt)

\* The head of the loop: lines 523-554.
LoopTop ==
  /\ pc = "top"
  /\ IF turn < max_turns
     THEN IF stop_event
          THEN /\ events' = Append(events, Complete("Mission stopped by user", 0))
               /\ pc' = "exit"
               /\ turn' = turn
               /\ last_turn' = NoTurn
          ELSE /\ turn' = turn + 1
               /\ IF current_agent_name \in Agents
                  THEN /\ events' = Append(events, AgentStart(current_agent_name, turn + 1))
                       /\ pc' = "streaming"
                       /\ last_turn' = NoTurn
                  ELSE /\ events' = events     \* self.agents[current_agent_name]: KeyError
                       /\ pc' = "crashed"
                       /\ last_turn' = IF last_turn.kind = "none" THEN NoTurn
                                       ELSE [last_turn EXCEPT !.at = "lookup"]
     ELSE /\ events' = events
          /\ pc' = "exit"
          /\ turn' = turn
          /\ last_turn' = NoTurn
  /\ UNCHANGED <<orch_vars, current_agent_name, current_message, max_turns, calls, granted,
                 approval, fm_vars, req_vars>>

\* After the loop: the final complete event, lines 1276-1283.
Finish ==
  /\ pc = "exit"
  /\ events' = Append(events, Complete("", turn))
  /\ pc' = "idle"
  /\ last_turn' = IF last_turn.kind = "none" THEN NoTurn
                  ELSE [last_turn EXCEPT !.at = "finished"]
  /\ UNCHANGED <<orch_vars, current_agent_name, current_message, turn, max_turns, calls, granted,
                 approval, fm_vars, req_vars>>

\* The loop body, lines 556-1274. failed: the agent's stream raised; think()
\* turned the exception into an error event, which the loop passes on, and
\* rsp.out is the message text received before it.
TurnWith(rsp, failed) ==
  /\ pc = "streaming"
  /\ LET cur == current_agent_name
         out == rsp.out
         cues == rsp.cues
         res == rsp.res
         flags == rsp.flags
         cl == _extract_mission_checklist(out, mission_checklist, mission_description)
         up == _extract_checklist_updates(out, cl.checklist)
         reqs == rsp.reqs
         n == OkPrefix(reqs, workspace_path)
         changes == CreatedChanges(reqs, n, next_id, cur, files)
         evs0 == events \o (IF failed THEN <<StreamError(cur)>> ELSE <<>>)
                        \o FileChangeEvents(reqs, n, next_id, cur)
         before == [kind |-> "", agent |-> cur, turn |-> turn, out |-> out, cues |-> cues,
                    status |-> mission_status, queue |-> handoff_queue,
                    checklist0 |-> mission_checklist, checklist |-> up.checklist,
                    created |-> n, stopped |-> stop_event, failed |-> failed,
                    conv0 |-> conversation, at |-> "turn"]
     IN /\ pending_changes' = pending_changes \cup changes
        /\ next_id' = next_id + n
        /\ IF n < Len(reqs)
           THEN \* create_pending_change raised: the exception leaves the generator
                /\ pc' = "crashed"
                /\ events' = evs0
                /\ mission_checklist' = up.checklist
                /\ mission_description' = cl.description
                /\ last_turn' = [before EXCEPT !.kind = "raised"]
                /\ UNCHANGED <<mission_status, handoff_queue, last_handoff, conversation,
                               current_agent_name, current_message>>
           ELSE LET b == TurnBranch(cues, n > 0, cur, current_message, handoff_queue,
                                    mission_status, up.checklist, cl.description,
                                    last_handoff, files, res)
                    m == Message(cur, flags[1], flags[2])
                IN /\ conversation' = conversation \o (IF b.again THEN <<m, m>> ELSE <<m>>)
                   /\ mission_status' = b.status
                   /\ handoff_queue' = b.queue
                   /\ last_handoff' = b.lh
                   /\ mission_checklist' = b.checklist
                   /\ mission_description' = b.desc
                   /\ current_agent_name' = b.agent
                   /\ current_message' = b.msg
                   /\ last_turn' = [before EXCEPT !.kind = b.kind]
                   /\ events' = evs0 \o b.evs
                   /\ pc' = IF b.cont THEN "top" ELSE "exit"
  /\ UNCHANGED <<stop_event, turn, max_turns, calls, granted, approval, workspace_path, files, req_vars>>

\* a turn whose stream ends normally
Turn(rsp) == TurnWith(rsp, FALSE)

AgentTurn == \E rsp \in Responses : Turn(rsp)

\* a turn whose stream fails after the text rsp.out
FailedTurn == \E rsp \in Responses : TurnWith(rsp, TRUE)

\* a turn whose response holds handoff tags and [DONE] only
TagTurn == \E rsp \in TagResponses : Turn(rsp)

\* a turn whose response holds action cues
ActionTurn == \E rsp \in ActionResponses : Turn(rsp)

\* ------------------------------------------------------------- approval resume
\* (mutation) an approved DONE finishes the mission whatever the checklist says
ApprovalResult_DoneIgnoresChecklist(approved, feedback, conv, lh, queue, status, checklist) ==
  LET has_last == conv # <<>>
      last_agent_name == IF has_last THEN conv[Len(conv)].agent ELSE "Senior Dev"
      was_done == has_last /\ conv[Len(conv)].done
      is_project_complete == has_last /\ conv[Len(conv)].pc
      R(agent, m, q, st) == [next_agent |-> agent, message |-> m, queue |-> q, status |-> st]
  IN IF approved
     THEN IF is_project_complete THEN R(None, Msg("none", <<>>), queue, "IDLE")
          ELSE IF lh # None THEN R(lh, Msg("approved_handoff", <<>>), queue, status)
          ELSE IF queue # <<>> THEN R(Head(queue), Msg("approved_queue", <<>>), Tail(queue), status)
          ELSE IF was_done THEN R(None, Msg("none", <<>>), queue, "IDLE")
          ELSE R(last_agent_name, Msg("approved_continue", <<>>), queue, status)
     ELSE R(last_agent_name,
            Msg(IF feedback \notin {None, ""} THEN "rejected_feedback" ELSE "rejected_generic",
                <<>>),
            queue, status)

\* (mutation) the queued agent is returned but stays in the queue
ApprovalResult_NoPop(approved, feedback, conv, lh, queue, status, checklist) ==
  LET has_last == conv # <<>>
      last_agent_name == IF has_last THEN conv[Len(conv)].agent ELSE "Senior Dev"
      was_done == has_last /\ conv[Len(conv)].done
      is_project_complete == has_last /\ conv[Len(conv)].pc
      R(agent, m, q, st) == [next_agent |-> agent, message |-> m, queue |-> q, status |-> st]
  IN IF approved
     THEN IF is_project_complete THEN R(None, Msg("none", <<>>), queue, "IDLE")
          ELSE IF lh # None THEN R(lh, Msg("approved_handoff", <<>>), queue, status)
          ELSE IF queue # <<>> THEN R(Head(queue), Msg("approved_queue", <<>>), queue, status)
          ELSE IF was_done
          THEN IF checklist # <<>> /\ ~_is_checklist_complete(checklist)
               THEN R("Senior Dev", Msg("approved_checklist", <<>>), queue, status)
               ELSE R(None, Msg("none", <<>>), queue, "IDLE")
          ELSE R(last_agent_name, Msg("approved_continue", <<>>), queue, status)
     ELSE R(last_agent_name,
            Msg(IF feedback \notin {None, ""} THEN "rejected_feedback" ELSE "rejected_generic",
                <<>>),
            queue, status)

\* (mutation) a rejection goes to the lead agent
ApprovalResult_RejectToLead(approved, feedback, conv, lh, queue, status, checklist) ==
  LET has_last == conv # <<>>
      last_agent_name == IF has_last THEN conv[Len(conv)].agent ELSE "Senior Dev"
      was_done == has_last /\ conv[Len(conv)].done
      is_project_complete == has_last /\ conv[Len(conv)].pc
      R(agent, m, q, st) == [next_agent |-> agent, message |-> m, queue |-> q, status |-> st]
  IN IF approved
     THEN IF is_project_complete THEN R(None, Msg("none", <<>>), queue, "IDLE")
          ELSE IF lh # None THEN R(lh, Msg("approved_handoff", <<>>), queue, status)
          ELSE IF queue # <<>> THEN R(Head(queue), Msg("approved_queue", <<>>), Tail(queue), status)
          ELSE IF was_done
          THEN IF checklist # <<>> /\ ~_is_checklist_complete(checklist)
               THEN R("Senior Dev", Msg("approved_checklist", <<>>), queue, status)
               ELSE R(None, Msg("none", <<>>), queue, "IDLE")
          ELSE R(last_agent_name, Msg("approved_continue", <<>>), queue, status)
     ELSE R("Senior Dev",
            Msg(IF feedback \notin {None, ""} THEN "rejected_feedback" ELSE "rejected_generic",
                <<>>),
            queue, status)

\* (mutation) the handoff queue is looked at before the stashed handoff
ApprovalResult_QueueFirst(approved, feedback, conv, lh, queue, status, checklist) ==
  LET has_last == conv # <<>>
      last_agent_name == IF has_last THEN conv[Len(conv)].agent ELSE "Senior Dev"
      was_done == has_last /\ conv[Len(conv)].done
      is_project_complete == has_last /\ conv[Len(conv)].pc
      R(agent, m, q, st) == [next_agent |-> agent, message |-> m, queue |-> q, status |-> st]
  IN IF approved
     THEN IF is_project_complete THEN R(None, Msg("none", <<>>), queue, "IDLE")
          ELSE IF queue # <<>> THEN R(Head(queue), Msg("approved_queue", <<>>), Tail(queue), status)
          ELSE IF lh # None THEN R(lh, Msg("approved_handoff", <<>>), queue, status)
          ELSE IF was_done
          THEN IF checklist # <<>> /\ ~_is_checklist_complete(checklist)
               THEN R("Senior Dev", Msg("approved_checklist", <<>>), queue, status)
               ELSE R(None, Msg("none", <<>>), queue, "IDLE")
          ELSE R(last_agent_name, Msg("approved_continue", <<>>), queue, status)
     ELSE R(last_agent_name,
            Msg(IF feedback \notin {None, ""} THEN "rejected_feedback" ELSE "rejected_generic",
                <<>>),
            queue, status)

\* handle_approval_signal(approved, feedback): the returned next_agent and
\* message, and the mission_status, handoff_queue it leaves.
ApprovalResult(approved, feedback, conv, lh, queue, status, checklist) ==
  LET has_last == conv # <<>>
      last_agent_name == IF has_last THEN conv[Len(conv)].agent ELSE "Senior Dev"
      was_done == has_last /\ conv[Len(conv)].done
      is_project_complete == has_last /\ conv[Len(conv)].pc
      R(agent, m, q, st) == [next_agent |-> agent, message |-> m, queue |-> q, status |-> st]
  IN IF approved
     THEN IF is_project_complete THEN R(None, Msg("none", <<>>), queue, "IDLE")
          ELSE IF lh # None THEN R(lh, Msg("approved_handoff", <<>>), queue, status)
          ELSE IF queue # <<>> THEN R(Head(queue), Msg("approved_queue", <<>>), Tail(queue), status)
          ELSE IF was_done
          THEN IF checklist # <<>> /\ ~_is_checklist_complete(checklist)
               THEN R("Senior Dev", Msg("approved_checklist", <<>>), queue, status)
               ELSE R(None, Msg("none", <<>>), queue, "IDLE")
          ELSE R(last_agent_name, Msg("approved_continue", <<>>), queue, status)
     ELSE R(last_agent_name,
            Msg(IF feedback \notin {None, ""} THEN "rejected_feedback" ELSE "rejected_generic",
                <<>>),
            queue, status)

HandleApproval(approved, feedback) ==
  LET r == ApprovalResult(approved, feedback, conversation, last_handoff, handoff_queue,
                          mission_status, mission_checklist)
  IN /\ approval' = [called |-> TRUE, approved |-> approved, feedback |-> feedback,
                     next_agent |-> r.next_agent,
                     message |-> r.message, status |-> mission_status,
                     queue |-> handoff_queue, last_handoff |-> last_handoff,
                     conv |-> conversation, checklist |-> mission_checklist,
                     turn |-> last_turn]
     /\ mission_status' = r.status
     /\ handoff_queue' = r.queue
     /\ last_handoff' = None
     /\ last_turn' = NoTurn
     /\ UNCHANGED <<mission_checklist, mission_description, conversation, stop_event,
                    pc, current_agent_name, current_message, turn, max_turns, events, calls, granted,
                    fm_vars, req_vars>>

\* the approval_done message of the UI: feedback is absent, "" or a text
Feedbacks == {None, "", "fb"}

handle_approval_signal ==
  /\ pc \in {"idle", "crashed"}
  /\ \E approved \in BOOLEAN, feedback \in Feedbacks :
       /\ approved => feedback = None
       /\ HandleApproval(approved, feedback)

\* stop(): between two calls, between two turns, or while the stream of a
\* turn is consumed
Stop ==
  /\ pc \in {"idle", "top", "streaming", "crashed"}
  /\ stop_event' = TRUE
  /\ handoff_queue' = <<>>
  /\ mission_status' = "IDLE"
  /\ last_turn' = [NoTurn EXCEPT !.at = "stop"]
  /\ approval' = NoApproval
  /\ UNCHANGED <<last_handoff, mission_checklist, mission_description, conversation,
                 pc, current_agent_name, current_message, turn, max_turns, events, calls, granted,
                 fm_vars, req_vars>>

\* clear_history()
ClearHistory ==
  /\ pc \in {"idle", "crashed"}
  /\ conversation' = <<>>
  /\ last_handoff' = None
  /\ handoff_queue' = <<>>
  /\ mission_status' = "IDLE"
  /\ mission_checklist' = <<>>
  /\ mission_description' = ""
  /\ last_turn' = [NoTurn EXCEPT !.at = "clear_history"]
  /\ approval' = NoApproval
  /\ UNCHANGED <<stop_event, pc, current_agent_name, current_message, turn, max_turns,
                 events, calls, granted, fm_vars, req_vars>>

\* FileManager.set_workspace(path)
SetWorkspace ==
  /\ pc = "idle"
  /\ calls = 0
  /\ workspace_path' = "ws"
  /\ pending_changes' = {}
  /\ last_turn' = NoTurn
  /\ approval' = NoApproval
  /\ UNCHANGED <<orch_vars, pc, current_agent_name, current_message, turn, max_turns,
                 events, calls, granted, files, next_id, req_vars>>

\* FileManager.detach_workspace()
DetachWorkspace ==
  /\ pc = "idle"
  /\ workspace_path' = None
  /\ pending_changes' = {}
  /\ last_turn' = NoTurn
  /\ UNCHANGED <<orch_vars, pc, current_agent_name, current_message, turn, max_turns,
                 events, calls, granted, approval, files, next_id, req_vars>>


\* ------------------------------------------------------------- checklist tracker
\* The texts given to the two checklist functions: up to MaxClToks fragments,
\* each a [MISSION_CHECKLIST] block, a [CHECKLIST_UPDATE] block of one line,
\* or other text.
ChecklistSigma ==
  {ChkTok(b) : b \in BlockNames} \cup {UpdTok(n) : n \in 1..3} \cup {DoneTok}

ChecklistTexts == SeqsUpTo(ChecklistSigma, MaxClToks)

\* "Process Mission Checklist cues": the call of _extract_mission_checklist
\* and the checklist_created event it guards.
ExtractChecklist ==
  \E text \in ChecklistTexts :
    LET r == _extract_mission_checklist(text, mission_checklist, mission_description)
    IN /\ mission_checklist' = r.checklist
       /\ mission_description' = r.description
       /\ probe' = [op |-> "extract", text |-> text, checklist0 |-> mission_checklist,
                    description0 |-> mission_description, ret |-> r.found,
                    created_event |-> r.found]
       /\ UNCHANGED <<mission_status, handoff_queue, last_handoff, conversation, stop_event,
                      call_vars, approval, fm_vars, applying, fm_log>>

\* "Process Checklist Updates": the call of _extract_checklist_updates.
UpdateChecklist ==
  \E text \in ChecklistTexts :
    LET r == _extract_checklist_updates(text, mission_checklist)
    IN /\ mission_checklist' = r.checklist
       /\ probe' = [op |-> "update", text |-> text, checklist0 |-> mission_checklist,
                    ret |-> r.n]
       /\ UNCHANGED <<mission_status, handoff_queue, last_handoff, mission_description,
                      conversation, stop_event, call_vars, approval, fm_vars, applying, fm_log>>

\* ------------------------------------------------------------- cue extractor
\* The texts given to _extract_cues on its own: up to MaxCueToks fragments.
\* No fragment with a "]" follows an unterminated cue.
CueSigma ==
  {Tag("JUNIOR"), Tag("SENIOR"), Tok("mention", "JUNIOR", 0), Tok("thanked", "JUNIOR", 0),
   DoneTok, PcTok, EditTok("a.py"), Tok("read", "a.py", 0), Tok("search", "q", 0),
   Tok("open", "foo", 0), Tok("text", "", 0)}

BracketFree == {"mention", "thanked", "open", "text"}

CueTexts ==
  {o \in SeqsUpTo(CueSigma, MaxCueToks) :
     \A i \in 1..Len(o) : o[i].t = "open" => \A j \in (i + 1)..Len(o) : o[j].t \in BracketFree}

\* cues = self._extract_cues(full_response)
ExtractCues ==
  /\ probe.op = "none"
  /\ \E text \in CueTexts : probe' = [op |-> "cues", text |-> text, cues |-> _extract_cues(text)]
  /\ UNCHANGED <<orch_vars, call_vars, approval, fm_vars, applying, fm_log>>

\* ------------------------------------------------------------- display text of a turn
\* The responses whose stored text is built in this model.
DisplaySigma ==
  {EditTok("a.py"), DeleteTok("b.py"), Tag("JUNIOR"), DoneTok, NestedDoneTok,
   Tok("read", "a.py", 0), Tok("placeholder", "", 0), Tok("text", "", 0)}

\* The number of characters of a fragment and of a placeholder, for the
\* four-letter paths of this model: "[EDIT_FILE:a.py]" + newline +
\* "```\nnew\n```" is 28, "[DELETE_FILE:b.py]" 18, "[File Edit: a.py]" 17,
\* "[File Create: a.py]" and "[File Delete: b.py]" 19.
Width(t) ==
  CASE t \in {"edit", "create"} -> 28
    [] t = "delete" -> 18
    [] t \in {"File edit", "placeholder"} -> 17
    [] t \in {"File create", "File delete"} -> 19
    [] t \in {"read", "editcue"} -> 16
    [] t = "done_nested" -> 12
    [] t = "tag" -> 9
    [] t = "done" -> 6
    [] OTHER -> 1

\* The text as characters: character k of fragment i is <<i, k>>; character
\* k of the placeholder written for the range that starts at fragment i is
\* <<i, -k>>.
RECURSIVE CharsOf(_, _)
CharsOf(out, i) ==
  IF i > Len(out) THEN <<>>
  ELSE [k \in 1..Width(out[i].t) |-> <<i, k>>] \o CharsOf(out, i + 1)

\* match.start() of fragment i in the text
StartOf(out, i) == Len(CharsOf(SubSeq(out, 1, i - 1), 1))

\* for r in replacements: temp_clean = temp_clean[:start] + text + temp_clean[end:],
\* in the order of the list and with the offsets taken in the original text
RECURSIVE ApplyReplacements(_, _, _)
ApplyReplacements(temp_clean, out, reps) ==
  IF reps = <<>> THEN temp_clean
  ELSE LET r == Head(reps)
           n == Len(temp_clean)
           start == StartOf(out, r.from)
           end == StartOf(out, r.to) + Width(out[r.to].t)
           text == [k \in 1..Width("File " \o r.action) |-> <<r.from, 0 - k>>]
       IN ApplyReplacements(SubSeq(temp_clean, 1, IF start < n THEN start ELSE n)
                              \o text
                              \o SubSeq(temp_clean, (IF end < n THEN end ELSE n) + 1, n),
                            out, Tail(reps))

\* A turn of an agent in an attached workspace, from "Extract all file edits"
\* to the Message that is stored: every create_pending_change returns, so
\* every request has its replacement. The stored text is given for at most
\* one replacement.
StoreTurn ==
  /\ probe.op = "none"
  /\ \E out \in SeqsUpTo(DisplaySigma, MaxDispToks) :
       LET reps == Requests(out)
       IN probe' = [op |-> "display", text |-> out, reps |-> reps,
                    temp_clean |-> ApplyReplacements(CharsOf(out, 1), out, reps),
                    cleaned |-> _clean_message_for_display(out),
                    stored |-> IF reps = <<>> THEN _clean_message_for_display(out)
                               ELSE IF Len(reps) = 1
                               THEN _clean_message_for_display(
                                      Replace1(out, reps[1].from, reps[1].to))
                               ELSE None]
  /\ UNCHANGED <<orch_vars, call_vars, approval, fm_vars, applying, fm_log>>

SpecDisplay == Init /\ [][StoreTurn]_vars

\* ------------------------------------------------------------- the agents websocket
\* websocket_endpoint: the receive loop and the tasks it creates. A task
\* wraps one call of process_message_stream; it is "created" until the event
\* loop first runs it, then "running" (inside the turn loop, suspended at an
\* await between steps), then "done" or "cancelled". active_stream_task is
\* the index of the task created last, 0 for None.
ReceiveChat ==
  /\ probe.op \in {"none", "ws"}
  /\ LET tasks == IF probe.op = "none" THEN <<>> ELSE probe.tasks
     IN /\ Len(tasks) < MaxTasks
        /\ probe' = [op |-> "ws", received |-> "chat", tasks |-> Append(tasks, "created"),
                     active_stream_task |-> Len(tasks) + 1]
  /\ UNCHANGED <<orch_vars, call_vars, approval, fm_vars, applying, fm_log>>

\* an approval_done message: handle_approval_signal runs in the receive loop
\* and, when it names a next agent, a task is created for the resumed stream
ReceiveApprovalDone ==
  /\ probe.op = "ws"
  /\ Len(probe.tasks) < MaxTasks
  /\ \E resumes \in BOOLEAN :
       probe' = IF resumes
                THEN [probe EXCEPT !.received = "approval_done",
                                   !.tasks = Append(@, "created"),
                                   !.active_stream_task = Len(probe.tasks) + 1]
                ELSE [probe EXCEPT !.received = "approval_done"]
  /\ UNCHANGED <<orch_vars, call_vars, approval, fm_vars, applying, fm_log>>

\* a stop message: orchestrator.stop(), and the task created last is
\* cancelled when it is not done
ReceiveStop ==
  /\ probe.op = "ws"
  /\ LET a == probe.active_stream_task
     IN probe' = IF a > 0 /\ probe.tasks[a] \in {"created", "running"}
                 THEN [probe EXCEPT !.received = "stop", !.tasks[a] = "cancelled"]
                 ELSE [probe EXCEPT !.received = "stop"]
  /\ stop_event' = TRUE
  /\ handoff_queue' = <<>>
  /\ mission_status' = "IDLE"
  /\ UNCHANGED <<last_handoff, mission_checklist, mission_description, conversation,
                 call_vars, approval, fm_vars, applying, fm_log>>

\* the event loop runs a created task: it enters process_message_stream
TaskRun ==
  /\ probe.op = "ws"
  /\ \E i \in 1..Len(probe.tasks) :
       /\ probe.tasks[i] = "created"
       /\ probe' = [probe EXCEPT !.tasks[i] = "running"]
  /\ UNCHANGED <<orch_vars, call_vars, approval, fm_vars, applying, fm_log>>

\* the stream of a task ends
TaskEnd ==
  /\ probe.op = "ws"
  /\ \E i \in 1..Len(probe.tasks) :
       /\ probe.tasks[i] = "running"
       /\ probe' = [probe EXCEPT !.tasks[i] = "done"]
  /\ UNCHANGED <<orch_vars, call_vars, approval, fm_vars, applying, fm_log>>

\* ------------------------------------------------------------- sub-research fan-out
\* The SUB_RESEARCH branch of a turn, for each query: search_web, one
\* fetch_item coroutine for each result, asyncio.gather. A result's url is
\* "http" (usable) or "" (the error rows of search_web). A task is "pending",
\* "fetching" (suspended in fetch_page) or "done".
UrlKinds == {"http", ""}

\* search_data = await self.scraper.search_web(query): the tasks are created
SubResearchQuery ==
  /\ probe.op = "none" \/ (probe.op = "fanout" /\ probe.joined /\ probe.query < MaxQueries)
  /\ \E n \in 0..MaxResults : \E urls \in [1..n -> UrlKinds] :
       probe' = [op |-> "fanout",
                 query |-> IF probe.op = "none" THEN 1 ELSE probe.query + 1,
                 urls |-> urls,
                 tasks |-> [i \in 1..n |-> "pending"],
                 results |-> [i \in 1..n |-> None],
                 finished |-> <<>>,
                 joined |-> FALSE,
                 sub_contents |-> <<>>,
                 all_detailed_contents |-> IF probe.op = "none" THEN <<>>
                                           ELSE probe.all_detailed_contents]
  /\ UNCHANGED <<orch_vars, call_vars, approval, fm_vars, applying, fm_log>>

\* fetch_item(f_idx, url) up to its first await: an unusable url returns None
\* at once, a usable one suspends in fetch_page.
FetchItemStart ==
  /\ probe.op = "fanout"
  /\ \E i \in 1..Len(probe.tasks) :
       /\ probe.tasks[i] = "pending"
       /\ probe' = IF probe.urls[i] = "http"
                   THEN [probe EXCEPT !.tasks[i] = "fetching"]
                   ELSE [probe EXCEPT !.tasks[i] = "done",
                                      !.finished = Append(@, i)]
  /\ UNCHANGED <<orch_vars, call_vars, approval, fm_vars, applying, fm_log>>

\* fetch_page returns a text, returns None, or raises: the except clause of
\* fetch_item turns the exception into None.
FetchItemEnd ==
  /\ probe.op = "fanout"
  /\ \E i \in 1..Len(probe.tasks), outcome \in {"content", "nothing", "raised"} :
       /\ probe.tasks[i] = "fetching"
       /\ probe' = [probe EXCEPT !.tasks[i] = "done",
                                  !.results[i] = IF outcome = "content" THEN "page" ELSE None,
                                  !.finished = Append(@, i)]
  /\ UNCHANGED <<orch_vars, call_vars, approval, fm_vars, applying, fm_log>>

\* (mutation) the join returns as soon as one task is done
AllDone_First(tasks) == tasks = <<>> \/ \E i \in 1..Len(tasks) : tasks[i] = "done"

\* asyncio.gather(*tasks) returns when every task is done
AllDone(tasks) == \A i \in 1..Len(tasks) : tasks[i] = "done"

\* results = await asyncio.gather(*tasks); the failures are filtered out and
\* the rest is added to the master list
Gather ==
  /\ probe.op = "fanout"
  /\ ~probe.joined
  /\ AllDone(probe.tasks)
  /\ LET ok == SelectSeq([i \in 1..Len(probe.tasks) |-> i], LAMBDA i : probe.results[i] # None)
     IN probe' = [probe EXCEPT !.joined = TRUE,
                               !.sub_contents = ok,
                               !.all_detailed_contents = @ \o ok]
  /\ UNCHANGED <<orch_vars, call_vars, approval, fm_vars, applying, fm_log>>

\* ------------------------------------------------------------- thought / message splitter
\* BaseAgent.think on a stream of chunks. A text is a sequence of characters.
start_tag == <<"<", "t", "h", "i", "n", "k", ">">>
end_tag == <<"<", "/", "t", "h", "i", "n", "k", ">">>

\* str.find: the first index at which tag occurs in buffer, 0 when it does not
Find(buffer, tag) ==
  LET S == {i \in 1..(Len(buffer) - Len(tag) + 1) : SubSeq(buffer, i, i + Len(tag) - 1) = tag}
  IN IF S = {} THEN 0 ELSE CHOOSE i \in S : \A j \in S : i <= j

\* (mutation) the test the other way round: possible_tag.startswith(tag)
StartsWith_Swapped(tag, possible_tag) ==
  /\ Len(tag) <= Len(possible_tag)
  /\ SubSeq(possible_tag, 1, Len(tag)) = tag

\* tag.startswith(possible_tag)
StartsWith(tag, possible_tag) ==
  /\ Len(possible_tag) <= Len(tag)
  /\ SubSeq(tag, 1, Len(possible_tag)) = possible_tag

\* (mutation) the thought streamed before the end tag is seen keeps one
\* character less
SafeLen_HoldsLess(buffer) == Len(buffer) - Len(end_tag) + 2

\* "stream safe part of thought": what cannot be the beginning of the end tag
SafeLen(buffer) == Len(buffer) - Len(end_tag) + 1

\* a chunk ended inside what may be a tag: the buffer kept it
HoldsPartial(st) ==
  IF st.in_thought
  THEN \E k \in 1..Len(st.buffer) :
         StartsWith(end_tag, SubSeq(st.buffer, Len(st.buffer) - k + 1, Len(st.buffer)))
  ELSE st.buffer # <<>>

\* a message or thought event of think(); follows records the character of
\* the buffer that came right after the content when it was yielded, "" when
\* the content was the whole buffer
Yield(type, content, follows) == [type |-> type, content |-> content, follows |-> follows]

\* The "while True" loop that follows "buffer += chunk". st holds in_thought,
\* buffer, the contents of the message and thought events yielded so far, and
\* in yielded the events yielded for the current chunk, in order.
RECURSIVE Drain(_)
Drain(st) ==
  LET buffer == st.buffer
      n == Len(buffer)
  IN IF st.in_thought
     THEN LET k == Find(buffer, end_tag)
              safe_len == SafeLen(buffer)
          IN IF k > 0
             THEN Drain([st EXCEPT !.thought = @ \o SubSeq(buffer, 1, k - 1),
                                   !.yielded = IF k > 1
                                               THEN Append(@, Yield("thought", SubSeq(buffer, 1, k - 1), "<"))
                                               ELSE @,
                                   !.in_thought = FALSE,
                                   !.buffer = SubSeq(buffer, k + Len(end_tag), n)])
             ELSE IF safe_len > 0
                  THEN [st EXCEPT !.thought = @ \o SubSeq(buffer, 1, safe_len),
                                  !.yielded = Append(@, Yield("thought", SubSeq(buffer, 1, safe_len),
                                                             IF safe_len < n THEN buffer[safe_len + 1] ELSE "")),
                                  !.buffer = SubSeq(buffer, safe_len + 1, n)]
                  ELSE st
     ELSE LET k == Find(buffer, start_tag)
              L == {i \in 1..n : buffer[i] = "<"}
              last_lt == CHOOSE i \in L : \A j \in L : j <= i
          IN IF k > 0
             THEN Drain([st EXCEPT !.message = @ \o SubSeq(buffer, 1, k - 1),
                                   !.yielded = (IF k > 1
                                                THEN Append(@, Yield("message", SubSeq(buffer, 1, k - 1), "<"))
                                                ELSE @) \o <<Yield("thought", <<>>, "")>>,
                                   !.in_thought = TRUE,
                                   !.buffer = SubSeq(buffer, k + Len(start_tag), n)])
             ELSE IF L # {} /\ StartsWith(start_tag, SubSeq(buffer, last_lt, n))
                  THEN [st EXCEPT !.message = @ \o SubSeq(buffer, 1, last_lt - 1),
                                  !.yielded = IF last_lt > 1
                                              THEN Append(@, Yield("message", SubSeq(buffer, 1, last_lt - 1), "<"))
                                              ELSE @,
                                  !.buffer = SubSeq(buffer, last_lt, n)]
                  ELSE [st EXCEPT !.message = @ \o buffer,
                                  !.yielded = Append(@, Yield("message", buffer, "")),
                                  !.buffer = <<>>]

\* The texts a provider streams in this model: up to MaxPieces pieces, each a
\* tag, a letter, or the beginning of a tag.
Pieces == {start_tag, end_tag, <<"a">>, <<"<">>, <<"<", "t", "h", "i">>}

RECURSIVE Flatten(_)
Flatten(ps) == IF ps = <<>> THEN <<>> ELSE Head(ps) \o Flatten(Tail(ps))

StreamTexts == {Flatten(ps) : ps \in SeqsUpTo(Pieces, MaxPieces)}

\* think() up to "async for chunk in stream"
ThinkStart ==
  /\ probe.op = "none" \/ (probe.op = "think" /\ probe.flushed)
  /\ \E text \in StreamTexts :
       probe' = [op |-> "think", text |-> text, rest |-> text, in_thought |-> FALSE,
                 buffer |-> <<>>, message |-> <<>>, thought |-> <<>>, yielded |-> <<>>,
                 partial |-> FALSE, flushed |-> FALSE]
  /\ UNCHANGED <<orch_vars, call_vars, approval, fm_vars, applying, fm_log>>

\* one chunk of the stream, of any length
ThinkChunk ==
  /\ probe.op = "think"
  /\ ~probe.flushed
  /\ \E k \in 1..Len(probe.rest) :
       LET st == Drain([probe EXCEPT !.buffer = @ \o SubSeq(probe.rest, 1, k),
                                         !.yielded = <<>>])
       IN probe' = [st EXCEPT !.rest = SubSeq(probe.rest, k + 1, Len(probe.rest)),
                              !.partial = @ \/ HoldsPartial(st)]
  /\ UNCHANGED <<orch_vars, call_vars, approval, fm_vars, applying, fm_log>>

\* the stream is over: "Flush remaining buffer"
ThinkFlush ==
  /\ probe.op = "think"
  /\ ~probe.flushed
  /\ probe.rest = <<>>
  /\ probe' = [probe EXCEPT !.flushed = TRUE,
                            !.yielded = IF probe.buffer = <<>> THEN <<>>
                                        ELSE Append(<<>>, Yield(IF probe.in_thought THEN "thought"
                                                             ELSE "message", probe.buffer, "")),
                            !.buffer = <<>>,
                            !.thought = IF probe.in_thought THEN @ \o probe.buffer ELSE @,
                            !.message = IF probe.in_thought THEN @ ELSE @ \o probe.buffer]
  /\ UNCHANGED <<orch_vars, call_vars, approval, fm_vars, applying, fm_log>>

\* ------------------------------------------------------------- approve / reject
\* The approve and reject requests of main.py run on one event loop: a
\* request runs until it awaits. apply_change awaits only while it opens and
\* writes the file (aiofiles); reject_change and the delete branch never await.
Contents == {"n1", "n2"}
PendingIds == {c.id : c \in pending_changes}
ChangeOf(id) == CHOOSE c \in pending_changes : c.id = id
Without(changes, id) == {c \in changes : c.id # id}

\* the answer of a finished request, with what it did and left behind:
\* wrote: it wrote new_content to (or unlinked) the file; path_after: the
\* content of the change's file, pending_after: whether the id is still pending
NoChange == PendingChange(0, None, "none", "", None, None)

FmResult(op, id, status, error, change, wrote, fs, pend) ==
  [op |-> op, id |-> id, status |-> status, error |-> error, change |-> change,
   wrote |-> wrote,
   path_after |-> IF change.id = 0 THEN None ELSE fs[change.path],
   pending_after |-> \E c \in pend : c.id = id]

\* FileManager.create_pending_change called for a file cue
FmCreate ==
  /\ next_id <= MaxFmOps
  /\ \E path \in Paths \cup {OutsidePath}, content \in Contents \cup {None},
        action \in {"edit", "delete"} :
       /\ (action = "delete") <=> (content = None)
       /\ IF CreateOk(path, workspace_path)
          THEN /\ pending_changes' = pending_changes \cup
                    {create_pending_change(next_id, path, content, "Junior Dev", action, files)}
               /\ next_id' = next_id + 1
          ELSE UNCHANGED <<pending_changes, next_id>>       \* raises
  /\ UNCHANGED <<orch_vars, call_vars, approval, workspace_path, files, req_vars>>

\* apply_change(change_id) up to its first await: lines 335-353
ApplyBegin ==
  /\ Len(fm_log) + Len(applying) < MaxFmReqs
  /\ \E id \in 1..MaxFmOps :
       IF id \notin PendingIds
       THEN /\ fm_log' = Append(fm_log, FmResult("apply", id, "failed", "Change not found",
                                                 NoChange, FALSE, files, pending_changes))
            /\ UNCHANGED <<files, pending_changes, applying>>
       ELSE LET change == ChangeOf(id)
            IN IF change.action = "delete"
               THEN LET fs == [files EXCEPT ![change.path] = Absent]
                        pend == Without(pending_changes, id)
                    IN /\ files' = fs
                       /\ pending_changes' = pend
                       /\ fm_log' = Append(fm_log, FmResult("apply", id, "applied", "", change,
                                                            TRUE, fs, pend))
                       /\ UNCHANGED applying
               ELSE /\ applying' = Append(applying, change)
                    /\ UNCHANGED <<files, pending_changes, fm_log>>
  /\ UNCHANGED <<orch_vars, call_vars, approval, workspace_path, next_id, probe>>

RemoveAt(sq, i) == SubSeq(sq, 1, i - 1) \o SubSeq(sq, i + 1, Len(sq))

\* apply_change after the write: del self.pending_changes[change_id] and the
\* answer, lines 354-363; the del raises KeyError when the id is gone.
ApplyFinish ==
  /\ \E i \in 1..Len(applying) :
       LET change == applying[i]
           fs == [files EXCEPT ![change.path] = change.new_content]
           gone == change.id \notin PendingIds
           pend == Without(pending_changes, change.id)
       IN /\ files' = fs
          /\ pending_changes' = pend
          /\ applying' = RemoveAt(applying, i)
          /\ fm_log' = Append(fm_log,
                 FmResult("apply", change.id, IF gone THEN "failed" ELSE "applied",
                          IF gone THEN "KeyError" ELSE "", change, TRUE, fs, pend))
  /\ UNCHANGED <<orch_vars, call_vars, approval, workspace_path, next_id, probe>>

\* apply_change when opening or writing the file raises: lines 364-365. The
\* file is as it was (open failed) or truncated (the write failed).
ApplyFail ==
  /\ \E i \in 1..Len(applying), truncated \in BOOLEAN :
       LET change == applying[i]
           fs == IF truncated THEN [files EXCEPT ![change.path] = ""] ELSE files
       IN /\ files' = fs
          /\ applying' = RemoveAt(applying, i)
          /\ fm_log' = Append(fm_log, FmResult("apply", change.id, "failed", "OSError", change,
                                               FALSE, fs, pending_changes))
  /\ UNCHANGED <<orch_vars, call_vars, approval, workspace_path, pending_changes, next_id, probe>>

\* reject_change(change_id): lines 367-378
Reject ==
  /\ Len(fm_log) + Len(applying) < MaxFmReqs
  /\ \E id \in 1..MaxFmOps :
       IF id \notin PendingIds
       THEN /\ fm_log' = Append(fm_log, FmResult("reject", id, "failed", "Change not found",
                                                 NoChange, FALSE, files, pending_changes))
            /\ UNCHANGED pending_changes
       ELSE LET pend == Without(pending_changes, id)
            IN /\ pending_changes' = pend
               /\ fm_log' = Append(fm_log, FmResult("reject", id, "rejected", "", ChangeOf(id),
                                                    FALSE, files, pend))
  /\ UNCHANGED <<orch_vars, call_vars, approval, workspace_path, files, next_id, applying,
                 probe>>

Next ==
  \/ StartCall
  \/ ResumeCall
  \/ LoopTop
  \/ AgentTurn
  \/ Finish
  \/ handle_approval_signal
  \/ Stop
  \/ ClearHistory
  \/ SetWorkspace

Spec == Init /\ [][Next]_vars

\* The file manager under its requests alone.
NextFM ==
  \/ SetWorkspace
  \/ DetachWorkspace
  \/ FmCreate
  \/ ApplyBegin
  \/ ApplyFinish
  \/ ApplyFail
  \/ Reject

SpecFM == Init /\ [][NextFM]_vars

\* The loop under responses of handoff tags and [DONE].
NextTags ==
  \/ StartCall
  \/ LoopTop
  \/ TagTurn
  \/ Finish

SpecTags == Init /\ [][NextTags]_vars

\* The loop under responses of action cues.
NextActions ==
  \/ SetWorkspace
  \/ StartCall
  \/ LoopTop
  \/ ActionTurn
  \/ Finish

SpecActions == Init /\ [][NextActions]_vars

\* Calls whose turns all end with a failure of the agent's stream.
NextStream ==
  \/ SetWorkspace
  \/ StartCall
  \/ LoopTop
  \/ FailedTurn
  \/ Finish

SpecStream == Init /\ [][NextStream]_vars

\* The checklist tracker on its own: the two functions applied to texts.
NextChecklist ==
  \/ ExtractChecklist
  \/ UpdateChecklist

SpecChecklist == Init /\ [][NextChecklist]_vars

\* The cue extractor on its own.
NextCues == ExtractCues

SpecCues == Init /\ [][NextCues]_vars

\* The messages of one websocket connection and the stream tasks.
NextSocket ==
  \/ ReceiveChat
  \/ ReceiveApprovalDone
  \/ ReceiveStop
  \/ TaskRun
  \/ TaskEnd

SpecSocket == Init /\ [][NextSocket]_vars

\* The sub-research fan-out of one turn.
NextFanout ==
  \/ SubResearchQuery
  \/ FetchItemStart
  \/ FetchItemEnd
  \/ Gather

SpecFanout == Init /\ [][NextFanout]_vars

\* The splitter on its own: texts streamed in chunks of every size.
NextThink ==
  \/ ThinkStart
  \/ ThinkChunk
  \/ ThinkFlush

SpecThink == Init /\ [][NextThink]_vars

\* ======================================================================
\* Properties
\* ======================================================================
IsType(e, t) == e.type = t
CountType(evs, t) == Cardinality({i \in 1..Len(evs) : evs[i].type = t})
CallOver == calls > 0 /\ pc \in {"idle", "crashed"}
LastEvent == IF events = <<>> THEN Ev("none", "", "", "", 0) ELSE events[Len(events)]

\* C1: one call of process_message_stream starts at most max_turns turns
\* (agent_start events) and then ends with a complete event, whatever the
\* agents output.
C1_TerminatesWithComplete ==
  /\ CountType(events, "agent_start") <= max_turns
  /\ CallOver => LastEvent.type = "complete"

\* The state right after a turn of the loop: last_turn holds the turn.
TurnDone == last_turn.kind # "none" /\ last_turn.at = "turn"
TurnRaised == last_turn.kind = "raised"
StartIndices == {i \in 1..Len(events) : events[i].type = "agent_start"}
LastStart == CHOOSE i \in StartIndices : \A j \in StartIndices : j <= i
\* the events of the latest turn, after its agent_start
TurnEvents == IF StartIndices = {} THEN <<>> ELSE SubSeq(events, LastStart + 1, Len(events))
HasFileCue(cues) == HasCue(cues, "EDIT") \/ HasCue(cues, "CREATE") \/ HasCue(cues, "DELETE")
HasHandoffCue(cues) == CuesForHandoff(cues) # <<>>
FirstHandoffAgent(cues) == CUE_TO_AGENT[CuesForHandoff(cues)[1]]
PausedForReview ==
  /\ pc = "exit"
  /\ LastEvent = AgentDone(last_turn.agent, "Pausing for file review")
  /\ CountType(TurnEvents, "handoff") = 0

\* C2: a turn whose text holds a file-edit cue and a handoff cue
\* pauses for review (agent_done 'Pausing for file review', no handoff event,
\* no further turn) and stashes the agent of the first handoff cue.
C2_FileCueAndHandoffPauses ==
  (TurnDone /\ HasFileCue(last_turn.cues) /\ HasHandoffCue(last_turn.cues))
    => PausedForReview /\ last_handoff = FirstHandoffAgent(last_turn.cues)

\* C3: a turn in which a pending change was created ends the call without
\* servicing an action cue of the same text (no tool status event), without a
\* handoff event, and with mission_status and handoff_queue as they were.
C3_PendingChangeHasPriority ==
  (TurnDone /\ last_turn.created > 0)
    => /\ pc \in {"exit", "crashed"}
       /\ CountType(TurnEvents, "agent_status") = 0
       /\ CountType(TurnEvents, "handoff") = 0
       /\ CountType(TurnEvents, "file_change") = last_turn.created
       /\ mission_status = last_turn.status
       /\ handoff_queue = last_turn.queue

C3_Witness ==
  /\ TurnDone /\ last_turn.created > 0
  /\ last_turn.out = <<Tok("read", "a.py", 0), EditTok("a.py")>>
  /\ ServicedAction(last_turn.cues) = "READ"
  /\ pc = "exit"

\* A turn that asked for no file change and no tool: the loop reaches the
\* handoff, PROJECT_COMPLETE and DONE checks.
NoFileRequest == last_turn.created = 0 /\ ~TurnRaised
PlainTurn == TurnDone /\ NoFileRequest /\ ServicedAction(last_turn.cues) = None
SelfHandoffFirst ==
  HasHandoffCue(last_turn.cues) /\ FirstHandoffAgent(last_turn.cues) = last_turn.agent
HasAgentDone(evs, text) == \E i \in 1..Len(evs) : evs[i].type = "agent_done" /\ evs[i].b = text

\* C4: a turn (no pending change, no action cue) whose cues include
\* PROJECT_COMPLETE while a checklist item is not done leaves mission_status
\* as it was, keeps the checklist, emits no 'Mission Accomplished', and the
\* loop goes on with the same agent and a message listing exactly the
\* not-done steps.
C4_IncompleteChecklistBlocks ==
  (PlainTurn /\ HasCue(last_turn.cues, "PROJECT_COMPLETE")
     /\ ~_is_checklist_complete(last_turn.checklist))
    => /\ mission_status = last_turn.status
       /\ mission_checklist = last_turn.checklist
       /\ ~HasAgentDone(TurnEvents, "Mission Accomplished")
       /\ pc = "top"
       /\ current_agent_name = last_turn.agent
       /\ current_message = Msg("incomplete", IncompleteSteps(last_turn.checklist))

\* The state right after handle_approval_signal: approval holds the call.
LastMessage == conversation[Len(conversation)]
ApprovedProjectComplete ==
  approval.called /\ approval.approved /\ conversation # <<>> /\ LastMessage.pc

\* C5: the checklist gates PROJECT_COMPLETE on every path: neither a turn
\* whose cues include PROJECT_COMPLETE nor the approval of a paused turn whose
\* text held PROJECT_COMPLETE changes mission_status (to IDLE) while a
\* checklist item is not done.
C5_ChecklistGatesEveryPath ==
  /\ (TurnDone /\ HasCue(last_turn.cues, "PROJECT_COMPLETE")
        /\ ~_is_checklist_complete(last_turn.checklist))
       => mission_status = last_turn.status
  /\ (ApprovedProjectComplete /\ ~_is_checklist_complete(mission_checklist))
       => mission_status = approval.status

\* C6: a turn (no pending change, no action cue) whose cues include
\* PROJECT_COMPLETE while the checklist is empty or all done ends the call
\* with mission_status IDLE, an empty handoff_queue and the checklist and the
\* mission description cleared, whatever other cues the text holds.
C6_CompleteChecklistCompletes ==
  (PlainTurn /\ HasCue(last_turn.cues, "PROJECT_COMPLETE")
     /\ _is_checklist_complete(last_turn.checklist))
    => /\ pc = "exit"
       /\ mission_status = "IDLE"
       /\ handoff_queue = <<>>
       /\ mission_checklist = <<>>
       /\ mission_description = ""

\* the requests about one change, in the order they were answered
Settled(r) == r.status \in {"applied", "rejected"}
LogIndices == 1..Len(fm_log)

\* C7: a pending change has exactly one outcome and is never applied twice:
\* an applied change is no longer pending and its file holds new_content (is
\* removed, for delete); a rejected change is no longer pending and no request
\* writes its content; every later apply or reject of the id answers failed
\* 'Change not found' and writes nothing.
C7_ExactlyOneOutcome ==
  /\ \A i \in LogIndices :
       LET r == fm_log[i]
       IN /\ r.status = "applied"
               => /\ ~r.pending_after
                  /\ r.path_after = (IF r.change.action = "delete" THEN Absent
                                     ELSE r.change.new_content)
          /\ r.status = "rejected" => ~r.pending_after /\ ~r.wrote
  /\ \A i \in LogIndices, j \in LogIndices :
       (i < j /\ fm_log[i].id = fm_log[j].id /\ Settled(fm_log[i]))
         => /\ fm_log[j].status = "failed"
            /\ fm_log[j].error = "Change not found"
            /\ ~fm_log[j].wrote
  /\ \A i \in LogIndices, j \in LogIndices :
       (i # j /\ fm_log[i].id = fm_log[j].id) => ~(fm_log[i].wrote /\ fm_log[j].wrote)

\* The agents of the handoff cues of the turn that differ from its agent.
OtherTargets(cues, agent) ==
  SelectSeq([i \in 1..Len(CuesForHandoff(cues)) |-> CUE_TO_AGENT[CuesForHandoff(cues)[i]]],
            LAMBDA a : a # agent)
\* the loop top found no registered agent for the turn after last_turn
LookupFailed == last_turn.kind # "none" /\ last_turn.at = "lookup"
DoneWithHandoff ==
  /\ NoFileRequest
  /\ ServicedAction(last_turn.cues) = None
  /\ HasCue(last_turn.cues, "DONE")
  /\ ~HasCue(last_turn.cues, "PROJECT_COMPLETE")
  /\ OtherTargets(last_turn.cues, last_turn.agent) # <<>>

\* C8: handoff wins over DONE: a turn (no pending change, action cue or
\* PROJECT_COMPLETE) whose cues include DONE and a handoff cue to another
\* agent does not stop the call; its last event is handoff(current agent ->
\* target), and when the ceiling allows a further turn the next event is
\* agent_start(target).
C8_HandoffWinsOverDone ==
  /\ (TurnDone /\ DoneWithHandoff)
       => /\ pc = "top"
          /\ LastEvent.type = "handoff"
          /\ LastEvent.a = last_turn.agent
          /\ LastEvent.b = OtherTargets(last_turn.cues, last_turn.agent)[1]
          /\ current_agent_name = LastEvent.b
  /\ ~(LookupFailed /\ DoneWithHandoff)

DoneWithoutHandoff ==
  /\ NoFileRequest
  /\ ServicedAction(last_turn.cues) = None
  /\ HasCue(last_turn.cues, "DONE")
  /\ ~HasCue(last_turn.cues, "PROJECT_COMPLETE")
  /\ OtherTargets(last_turn.cues, last_turn.agent) = <<>>

DoneOutcome ==
  IF last_turn.queue # <<>>
  THEN /\ handoff_queue = Tail(last_turn.queue)
       /\ current_agent_name = Head(last_turn.queue)
       /\ LastEvent = Handoff(last_turn.agent, Head(last_turn.queue), "QUEUE_NEXT")
       /\ pc = "top"
  ELSE /\ pc = "exit"
       /\ LastEvent.type = "agent_done"
       /\ mission_status = last_turn.status

\* C9: a turn (no pending change, action cue or PROJECT_COMPLETE) with DONE
\* and no handoff to a different agent: with a non-empty handoff_queue the
\* head is removed and becomes the agent of the next turn (handoff event with
\* cue QUEUE_NEXT); with an empty queue the call ends with agent_done and
\* mission_status is left as it was (IN_PROGRESS).
C9_DoneTakesQueueOrStops ==
  (TurnDone /\ DoneWithoutHandoff) => DoneOutcome

\* C9 amended: the same for a turn with DONE and no handoff cue at all (a
\* handoff cue naming the current agent makes the loop go on instead).
C9_DoneNoHandoffCue ==
  (TurnDone /\ DoneWithoutHandoff /\ ~HasHandoffCue(last_turn.cues)) => DoneOutcome

C9_Witness ==
  /\ TurnDone /\ DoneWithoutHandoff /\ ~HasHandoffCue(last_turn.cues)
  /\ last_turn.queue # <<>>
  /\ last_turn.kind = "queue_next"
  /\ handoff_queue = Tail(last_turn.queue)

NoDuplicates(sq) == \A i \in 1..Len(sq), j \in 1..Len(sq) : sq[i] = sq[j] => i = j
HandoffAgents(cues) ==
  [i \in 1..Len(CuesForHandoff(cues)) |-> CUE_TO_AGENT[CuesForHandoff(cues)[i]]]
\* the queue after appending, in order, the agents that are not yet in it and
\* are neither the current agent nor the target
RECURSIVE QueuedRest(_, _, _, _)
QueuedRest(rest, queue, cur, target) ==
  IF rest = <<>> THEN queue
  ELSE QueuedRest(Tail(rest),
                  IF InSeq(Head(rest), queue) \/ Head(rest) = cur \/ Head(rest) = target
                  THEN queue ELSE Append(queue, Head(rest)),
                  cur, target)
CueHandoff == TurnDone /\ last_turn.kind = "handoff"

\* C10: when a turn proceeds to a handoff, the target is the agent of the
\* first handoff cue, and the agents of the remaining handoff cues are
\* appended to handoff_queue in order of appearance, leaving out the agents
\* already queued, the current agent and the handoff target; the queue never
\* holds an agent twice.
C10_FirstCueTargetRestQueued ==
  /\ NoDuplicates(handoff_queue)
  /\ CueHandoff
       => /\ current_agent_name = FirstHandoffAgent(last_turn.cues)
          /\ LastEvent = Handoff(last_turn.agent, FirstHandoffAgent(last_turn.cues),
                                 CuesForHandoff(last_turn.cues)[1])
          /\ handoff_queue = QueuedRest(Tail(HandoffAgents(last_turn.cues)), last_turn.queue,
                                        last_turn.agent, FirstHandoffAgent(last_turn.cues))

\* C11: a turn (no pending change, no action cue) whose first handoff cue maps
\* to the current agent emits no handoff event and no agent_done, does not end
\* the call, and leaves the same registered agent as the agent of the next
\* turn.
C11_SelfHandoffIsNoOp ==
  (PlainTurn /\ SelfHandoffFirst)
    => /\ CountType(TurnEvents, "handoff") = 0
       /\ CountType(TurnEvents, "agent_done") = 0
       /\ pc = "top"
       /\ current_agent_name = last_turn.agent
       /\ current_agent_name \in Agents

C11_Witness ==
  /\ PlainTurn /\ SelfHandoffFirst
  /\ last_turn.agent = "Junior Dev"
  /\ last_turn.out = <<Tag("JUNIOR"), Tag("SENIOR")>>
  /\ last_turn.kind = "self_handoff"
  /\ pc = "top"

\* The action cues of the claim, highest priority first.
ActionOrder ==
  <<"READ", "FILE_SEARCH", "SUB_RESEARCH", "READ_URL", "SEARCH", "RUN_COMMAND", "RUN_TESTS">>
ActionTypes(cues) == {i \in 1..Len(ActionOrder) : HasCue(cues, ActionOrder[i])}
HighestAction(cues) ==
  ActionOrder[CHOOSE i \in ActionTypes(cues) : \A j \in ActionTypes(cues) : i <= j]
\* the collaborator calls that service a type
Collaborators(a) ==
  CASE a = "READ" -> {"read_file"}
    [] a = "FILE_SEARCH" -> {"get_directory"}
    [] a = "SUB_RESEARCH" -> {"search_web", "fetch_page"}
    [] a = "READ_URL" -> {"fetch_page"}
    [] a = "SEARCH" -> {"search_and_summarize"}
    [] a = "RUN_COMMAND" -> {"run_command"}
    [] a = "RUN_TESTS" -> {"run_tests"}
\* the collaborator calls of a turn, as its status events announce them
Invoked(evs) == {evs[i].b : i \in {j \in 1..Len(evs) : evs[j].type = "agent_status"}}

\* C12: in a turn that created no pending change and whose cues hold action
\* cues of several types, exactly one type is serviced, the highest in the
\* order READ_FILE > FILE_SEARCH > SUB_RESEARCH > READ_URL > SEARCH >
\* RUN_COMMAND > RUN_TESTS, and no collaborator of a lower type is invoked.
C12_HighestActionOnly ==
  (TurnDone /\ NoFileRequest /\ Cardinality(ActionTypes(last_turn.cues)) >= 2)
    => /\ last_turn.kind = HighestAction(last_turn.cues)
       /\ Invoked(TurnEvents) = Collaborators(HighestAction(last_turn.cues))

ResultKinds ==
  {"read_missing", "read_content", "files_found", "files_none", "synthesize", "url_content",
   "url_failed", "search_results", "command_output", "command_failed", "tests_output",
   "tests_failed"}

\* C13: a turn in which an action cue is serviced emits no handoff event, and
\* leaves the same agent as the agent of the next turn with the collaborator's
\* result as its message.
C13_ToolUseKeepsAgent ==
  (TurnDone /\ NoFileRequest /\ ServicedAction(last_turn.cues) # None)
    => /\ pc = "top"
       /\ current_agent_name = last_turn.agent
       /\ current_message.kind \in ResultKinds
       /\ CountType(TurnEvents, "handoff") = 0

\* The state right after handle_approval_signal(approved = True) / (False),
\* and what the call found in the last message of the log.
Approved == approval.called /\ approval.approved
Rejected == approval.called /\ ~approval.approved
FoundLast == approval.conv # <<>>
FoundProjectComplete == FoundLast /\ approval.conv[Len(approval.conv)].pc
FoundDone == FoundLast /\ approval.conv[Len(approval.conv)].done
FoundStash == approval.last_handoff # None

\* C14: an approval that finds no PROJECT_COMPLETE in the last message and a
\* stashed handoff target T returns next_agent = T with the message that notes
\* the approval, whether or not the message holds DONE, and leaves the handoff
\* queue as it was; after every call, on any branch, last_handoff is None.
C14_ApprovedResumesStash ==
  /\ approval.called => last_handoff = None
  /\ (Approved /\ ~FoundProjectComplete /\ FoundStash)
       => /\ approval.next_agent = approval.last_handoff
          /\ approval.message = Msg("approved_handoff", <<>>)
          /\ handoff_queue = approval.queue

C14_Witness ==
  /\ Approved /\ ~FoundProjectComplete /\ FoundStash
  /\ FoundDone
  /\ approval.queue # <<>>
  /\ approval.next_agent = "Researcher"
  /\ approval.turn.kind = "pause"
  /\ last_handoff = None

\* the approval has nothing to resume
NothingToResume ==
  \/ FoundProjectComplete
  \/ /\ FoundDone
     /\ ~FoundStash
     /\ approval.queue = <<>>
     /\ ~(approval.checklist # <<>> /\ ~_is_checklist_complete(approval.checklist))

\* C15: handle_approval_signal(approved = True) returns next_agent = None and
\* message = None exactly when the last message holds [PROJECT_COMPLETE], or
\* holds [DONE] with no stashed handoff, an empty queue and no incomplete
\* checklist; in those cases mission_status becomes IDLE, in every other case
\* the agent is not None and mission_status is left as it was.
C15_NullExactlyWhenFinished ==
  Approved
    => /\ (approval.next_agent = None) <=> NothingToResume
       /\ (approval.message = Msg("none", <<>>)) <=> NothingToResume
       /\ NothingToResume => mission_status = "IDLE"
       /\ ~NothingToResume => mission_status = approval.status

C15_Witness ==
  /\ Approved /\ FoundDone /\ ~FoundProjectComplete
  /\ approval.next_agent = None
  /\ approval.status = "IN_PROGRESS"
  /\ mission_status = "IDLE"

\* the approval follows a call whose last turn paused for file review
AfterPause == approval.turn.kind = "pause" /\ approval.turn.at = "finished"
IncompleteChecklist(checklist) == checklist # <<>> /\ ~_is_checklist_complete(checklist)

\* C16: after a turn that paused for file review and whose text signalled
\* [DONE] (no PROJECT_COMPLETE, no handoff stashed, empty handoff queue) while
\* a checklist item is not done, handle_approval_signal(approved = True)
\* returns Senior Dev with the message to re-evaluate the checklist, and
\* mission_status stays IN_PROGRESS.
C16_ApprovedDoneReturnsLead ==
  (Approved /\ AfterPause
     /\ HasCue(approval.turn.cues, "DONE") /\ ~HasCue(approval.turn.cues, "PROJECT_COMPLETE")
     /\ ~FoundStash /\ approval.queue = <<>>
     /\ IncompleteChecklist(approval.checklist))
    => /\ approval.next_agent = "Senior Dev"
       /\ approval.message = Msg("approved_checklist", <<>>)
       /\ mission_status = "IN_PROGRESS"

\* C17: an approval that finds no PROJECT_COMPLETE in the last message, no
\* stashed handoff and a non-empty handoff queue returns the head of the queue
\* as next_agent and removes exactly that element, the rest keeping its order.
C17_ApprovedPopsQueue ==
  (Approved /\ ~FoundProjectComplete /\ ~FoundStash /\ approval.queue # <<>>)
    => /\ approval.next_agent = Head(approval.queue)
       /\ handoff_queue = Tail(approval.queue)
       /\ approval.message = Msg("approved_queue", <<>>)

C17_Witness ==
  /\ Approved /\ ~FoundProjectComplete /\ ~FoundStash
  /\ Len(approval.queue) = 2
  /\ approval.next_agent = approval.queue[1]
  /\ handoff_queue = <<approval.queue[2]>>

\* C18: handle_approval_signal(approved = False, feedback) returns the agent
\* of the last conversation message (after a pause: the agent that proposed
\* the change), with a message that carries the feedback text when one is
\* given and the generic text when none is, and changes neither
\* mission_status, the handoff queue, the checklist nor the conversation log.
C18_RejectedReturnsProposer ==
  Rejected
    => /\ FoundLast => approval.next_agent = approval.conv[Len(approval.conv)].agent
       /\ AfterPause => approval.next_agent = approval.turn.agent
       /\ approval.feedback = "fb" => approval.message = Msg("rejected_feedback", <<>>)
       /\ approval.feedback = None => approval.message = Msg("rejected_generic", <<>>)
       /\ mission_status = approval.status
       /\ handoff_queue = approval.queue
       /\ mission_checklist = approval.checklist
       /\ conversation = approval.conv

C18_Witness ==
  /\ Rejected /\ AfterPause
  /\ approval.feedback = "fb"
  /\ approval.next_agent = "Junior Dev"
  /\ approval.queue # <<>>
  /\ approval.last_handoff # None

\* no turn of the latest call paused for file review (no call at all included)
NoPausedTurn == ~HasAgentDone(events, "Pausing for file review")
LastSpeaker ==
  IF FoundLast THEN approval.conv[Len(approval.conv)].agent ELSE "Senior Dev"

\* C19: handle_approval_signal called when no turn is paused for approval
\* (empty log, or after a call that ended without a pause) returns, for
\* approved and rejected alike, a continuation with the agent that spoke last
\* (Senior Dev when the log is empty).
C19_NoPauseSameAgent ==
  (approval.called /\ NoPausedTurn)
    => /\ approval.next_agent = LastSpeaker
       /\ approval.message.kind \in {"approved_continue", "rejected_feedback", "rejected_generic"}

\* the turn whose stream was being consumed when stop() was signalled
StoppedTurn == last_turn.kind # "none" /\ last_turn.stopped
HasComplete(evs, text) == \E i \in 1..Len(evs) : evs[i].type = "complete" /\ evs[i].b = text

\* C20: when stop() is signalled while the stream of a turn is consumed,
\* nothing of the partial response is acted on (no pending change, no
\* checklist change, no tool status, no handoff), no further turn starts, and
\* the call ends with the stopped terminal event.
C20_StopActsOnNothing ==
  /\ (TurnDone /\ StoppedTurn)
       => /\ last_turn.created = 0
          /\ CountType(TurnEvents, "file_change") = 0
          /\ mission_checklist = last_turn.checklist0
          /\ CountType(TurnEvents, "agent_status") = 0
          /\ CountType(TurnEvents, "handoff") = 0
  /\ (StoppedTurn /\ last_turn.at = "finished")
       => HasComplete(events, "Mission stopped by user")

\* C21: when a collaborator call of the turn loop raises (here
\* create_pending_change), the exception does not leave
\* process_message_stream: the loop goes on with the same agent and a
\* current_message that describes the failure, and the mission is not
\* aborted.
C21_CollaboratorFailureFedBack ==
  TurnRaised
    => /\ pc = "top"
       /\ current_agent_name = last_turn.agent
       /\ current_message.kind = "collaborator_failed"
       /\ mission_status = last_turn.status

FailedStreamTurn == last_turn.kind # "none" /\ last_turn.failed

\* C22: when the agent's stream fails in the middle of a turn, the loop
\* emits an error event and finishes the turn as if the text held no cue: no
\* pending change, no tool action and no handoff comes from the partial
\* text, and the call ends with agent_done 'Response complete'.
C22_FailedStreamHasNoCues ==
  (TurnDone /\ FailedStreamTurn)
    => /\ CountType(TurnEvents, "error") = 1
       /\ last_turn.created = 0
       /\ CountType(TurnEvents, "file_change") = 0
       /\ CountType(TurnEvents, "agent_status") = 0
       /\ CountType(TurnEvents, "handoff") = 0
       /\ LastEvent = AgentDone(last_turn.agent, "Response complete")
       /\ pc = "exit"

Updated == probe.op = "update"
Extracted == probe.op = "extract"
UpdateLines(text) == {text[i].n : i \in {j \in 1..Len(text) : text[j].t = "upd"}}

\* C23: applying _extract_checklist_updates to the same text a second time
\* leaves the checklist as the first application left it, marks no item, and
\* returns 0.
C23_UpdatesIdempotent ==
  Updated
    => LET again == _extract_checklist_updates(probe.text, mission_checklist)
       IN again.checklist = mission_checklist /\ again.n = 0

DistinctSteps(checklist) ==
  \A i, j \in 1..Len(checklist) : checklist[i].step = checklist[j].step => i = j

\* C24: the step numbers of mission_checklist are pairwise distinct in
\* every reachable state, and an application of updates never turns a done
\* flag from true to false.
C24_StepsDistinctDoneMonotone ==
  /\ DistinctSteps(mission_checklist)
  /\ Updated
       => /\ Len(mission_checklist) = Len(probe.checklist0)
          /\ \A i \in 1..Len(mission_checklist) :
                probe.checklist0[i].done => mission_checklist[i].done

ChkIndices(text) == {i \in 1..Len(text) : text[i].t = "chk"}
FirstBlock(text) ==
  ChecklistBlocks[text[CHOOSE i \in ChkIndices(text) : \A j \in ChkIndices(text) : i <= j].v]

\* C25: _extract_mission_checklist(text) returns True exactly when the text
\* holds a [MISSION_CHECKLIST] block; then the checklist and the description
\* are those of the block, nothing of the previous ones is kept; when it
\* returns False both are as before and no checklist_created event is
\* emitted.
C25_ExtractReplacesWholesale ==
  Extracted
    => /\ probe.ret = (ChkIndices(probe.text) # {})
       /\ probe.ret
            => /\ mission_checklist = FirstBlock(probe.text).items
               /\ mission_description = FirstBlock(probe.text).mission
       /\ ~probe.ret
            => /\ mission_checklist = probe.checklist0
               /\ mission_description = probe.description0
               /\ ~probe.created_event

Flipped == {i \in 1..Len(mission_checklist) :
              ~probe.checklist0[i].done /\ mission_checklist[i].done}

\* C26: _extract_checklist_updates returns the number of items whose done
\* flag went from false to true; it changes nothing but done flags, and only
\* of items whose step number is on a "- [x] N." line of the text; a line
\* whose number matches no item changes nothing.
C26_UpdatesCountAndFrame ==
  Updated
    => /\ Len(mission_checklist) = Len(probe.checklist0)
       /\ probe.ret = Cardinality(Flipped)
       /\ \A i \in 1..Len(mission_checklist) :
            /\ [mission_checklist[i] EXCEPT !.done = FALSE]
                 = [probe.checklist0[i] EXCEPT !.done = FALSE]
            /\ probe.checklist0[i].done => mission_checklist[i].done
            /\ i \in Flipped => mission_checklist[i].step \in UpdateLines(probe.text)

\* two items with one number, one line for it: one item is marked, the
\* other is left, and a line for a number no item carries is in the text
C26_Witness ==
  /\ Updated
  /\ probe.checklist0 = ChecklistBlocks["D"].items
  /\ probe.text = <<UpdTok(1), UpdTok(3)>>
  /\ probe.ret = 1
  /\ mission_checklist[1].done /\ ~mission_checklist[2].done

\* The text without its <think>...</think> spans, and the bodies of the
\* spans in order: each span runs from a "<think>" to the first "</think>"
\* after it.
RECURSIVE Spans(_)
Spans(text) ==
  LET n == Len(text)
      k == Find(text, start_tag)
      after == SubSeq(text, k + Len(start_tag), n)
      e == Find(after, end_tag)
  IN IF k = 0 \/ e = 0
     THEN [message |-> text, thought |-> <<>>]
     ELSE LET r == Spans(SubSeq(after, e + Len(end_tag), Len(after)))
          IN [message |-> SubSeq(text, 1, k - 1) \o r.message,
              thought |-> SubSeq(after, 1, e - 1) \o r.thought]

Streamed == probe.op = "think" /\ probe.flushed

\* C27: for every text and every way of cutting it into chunks, the
\* contents of the message events concatenate to the text without its
\* <think>...</think> spans and their tags, and the contents of the thought
\* events concatenate to the bodies of the spans in order.
C27_SplitterRoundTrip ==
  Streamed
    => /\ probe.message = Spans(probe.text).message
       /\ probe.thought = Spans(probe.text).thought

\* As Spans, with a "<think>" that is never closed opening a span that runs
\* to the end of the text.
RECURSIVE SpansToEnd(_)
SpansToEnd(text) ==
  LET n == Len(text)
      k == Find(text, start_tag)
      after == SubSeq(text, k + Len(start_tag), n)
      e == Find(after, end_tag)
  IN IF k = 0
     THEN [message |-> text, thought |-> <<>>]
     ELSE IF e = 0
          THEN [message |-> SubSeq(text, 1, k - 1), thought |-> after]
          ELSE LET r == SpansToEnd(SubSeq(after, e + Len(end_tag), Len(after)))
               IN [message |-> SubSeq(text, 1, k - 1) \o r.message,
                   thought |-> SubSeq(after, 1, e - 1) \o r.thought]

\* C27 (amended): for every text and every way of cutting it into chunks,
\* the message contents concatenate to the text without its spans and the
\* thought contents to the bodies of the spans, where a "<think>" that is
\* never closed opens a span that runs to the end of the text.
C27_SplitterRoundTripOpenSpan ==
  Streamed
    => /\ probe.message = SpansToEnd(probe.text).message
       /\ probe.thought = SpansToEnd(probe.text).thought

\* "<think>a</think>a" streamed with a chunk that ended inside a tag
C27_Witness ==
  /\ Streamed
  /\ probe.text = start_tag \o <<"a">> \o end_tag \o <<"a">>
  /\ probe.partial
  /\ probe.message = <<"a">>
  /\ probe.thought = <<"a">>

NoCue == Cue("", "")
\* The cue a fragment of the text carries, NoCue for a fragment without one.
CueIn(tk) ==
  CASE tk.t \in {"tag", "mention"} -> Cue("HANDOFF", tk.v)
    [] tk.t = "edit" -> Cue("EDIT", tk.v)
    [] tk.t = "read" -> Cue("READ", tk.v)
    [] tk.t = "search" -> Cue("SEARCH", tk.v)
    [] tk.t = "done" -> Cue("DONE", "")
    [] tk.t = "pc" -> Cue("PROJECT_COMPLETE", "")
    [] OTHER -> NoCue

Occurrences(text, c) == {i \in 1..Len(text) : CueIn(text[i]) = c}
\* the offset that places a cue: the last occurrence for DONE and
\* PROJECT_COMPLETE, the first for every other cue
Offset(text, c) ==
  LET S == Occurrences(text, c)
  IN IF c.k \in {"DONE", "PROJECT_COMPLETE"}
     THEN CHOOSE i \in S : \A j \in S : j <= i
     ELSE CHOOSE i \in S : \A j \in S : i <= j

CuesExtracted == probe.op = "cues"

\* C28: _extract_cues returns the cues of the text without duplicates, in
\* ascending order of the offset of each cue's first occurrence, DONE and
\* PROJECT_COMPLETE being placed by their last occurrence; cues of different
\* types are interleaved by offset; an unterminated "[EDIT_FILE:foo" with no
\* closing "]" yields no cue.
C28_CuesOrderedByOffset ==
  CuesExtracted
    => LET text == probe.text
           cues == probe.cues
       IN /\ NoDuplicates(cues)
          /\ {cues[i] : i \in 1..Len(cues)} = {CueIn(text[i]) : i \in 1..Len(text)} \ {NoCue}
          /\ \A a, b \in 1..Len(cues) : a < b => Offset(text, cues[a]) < Offset(text, cues[b])

\* "[DONE] [->JUNIOR] [DONE]": the handoff cue comes before DONE
C28_Witness ==
  /\ CuesExtracted
  /\ probe.text = <<DoneTok, Tag("JUNIOR"), DoneTok>>
  /\ probe.cues = <<Cue("HANDOFF", "JUNIOR"), Cue("DONE", "")>>

\* "@Junior [READ_FILE:a.py] [EDIT_FILE:foo": the unterminated cue is dropped
C28_WitnessOpen ==
  /\ CuesExtracted
  /\ probe.text = <<Tok("mention", "JUNIOR", 0), Tok("read", "a.py", 0), Tok("open", "foo", 0)>>
  /\ probe.cues = <<Cue("HANDOFF", "JUNIOR"), Cue("READ", "a.py")>>

\* C29: a turn that runs to its end appends exactly one Message to the
\* conversation and leaves the earlier entries as they were, so that after a
\* call the log has grown by the number of turns started.
C29_OneMessagePerTurn ==
  (TurnDone /\ ~TurnRaised)
    => /\ Len(conversation) = Len(last_turn.conv0) + 1
       /\ SubSeq(conversation, 1, Len(last_turn.conv0)) = last_turn.conv0
       /\ conversation[Len(conversation)].agent = last_turn.agent

ProjectCompleted == TurnDone /\ last_turn.kind = "project_complete"
ApprovalFinalized ==
  /\ approval.called
  /\ approval.next_agent = None
  /\ approval.status = "IN_PROGRESS"
  /\ mission_status = "IDLE"
JustStopped == last_turn.at = "stop"
JustCleared == last_turn.at = "clear_history"

\* C30: after mission_status has become IDLE by an in-loop
\* PROJECT_COMPLETE, by handle_approval_signal finalizing the mission, by
\* stop() or by clear_history, mission_checklist and mission_description are
\* empty.
C30_IdleClearsChecklist ==
  (ProjectCompleted \/ ApprovalFinalized \/ JustStopped \/ JustCleared)
    => /\ mission_status = "IDLE"
       /\ mission_checklist = <<>>
       /\ mission_description = ""

CallEndedWithoutPause == last_turn.at = "finished" /\ last_turn.kind # "pause"

\* C31: last_handoff is non-null only while a file-change approval is
\* outstanding: when the most recent call of process_message_stream has ended
\* without a pause for file review, or handle_approval_signal has run since
\* the pause, last_handoff is None.
C31_StashOnlyWhilePaused ==
  (CallEndedWithoutPause \/ approval.called) => last_handoff = None

FanOut == probe.op = "fanout"
\* two fetches are suspended in fetch_page at the same time
Overlapping ==
  \E i, j \in 1..Len(probe.tasks) : i # j /\ probe.tasks[i] = "fetching" /\ probe.tasks[j] = "fetching"

\* C32: the loop goes on after a query only when every fetch of the query
\* has finished; a fetch that raised or returned nothing contributes no
\* entry and aborts nothing; every successful fetch contributes exactly one
\* entry, in result order.
C32_FanOutJoinsAll ==
  (FanOut /\ probe.joined)
    => /\ \A i \in 1..Len(probe.tasks) : probe.tasks[i] = "done"
       /\ Len(probe.finished) = Len(probe.tasks)
       /\ \A i \in 1..Len(probe.tasks) :
            Cardinality({k \in 1..Len(probe.sub_contents) : probe.sub_contents[k] = i})
              = IF probe.results[i] # None THEN 1 ELSE 0
       /\ \A a, b \in 1..Len(probe.sub_contents) :
            a < b => probe.sub_contents[a] < probe.sub_contents[b]

\* three fetches in flight together, finished in the order 3, 2, 1, the
\* second one failing: the entries are those of 1 and 3, in that order
C32_Witness ==
  /\ FanOut /\ probe.joined
  /\ Len(probe.tasks) = 3
  /\ probe.finished = <<3, 2, 1>>
  /\ probe.results[2] = None
  /\ probe.sub_contents = <<1, 3>>

\* the fetches of a query run concurrently
C32_WitnessOverlap == FanOut /\ Overlapping

Displayed == probe.op = "display"

\* C33: the conversation entry stored for a turn holds, for every
\* EDIT_FILE / CREATE_FILE cue that is followed by a fenced code block and
\* for every DELETE_FILE cue, the placeholder "[File <Action>: <path>]" in
\* the place of the cue and its block (here: for a turn with one such cue).
C33_StoredEntryHasPlaceholder ==
  (Displayed /\ Len(probe.reps) = 1) => HasTok(probe.stored, "placeholder")

\* the fragments that are internal tags or placeholders
InternalTypes == {"done", "done_nested", "read", "search", "fsearch", "readurl", "subres",
                  "edit", "create", "editcue", "createcue", "delete", "placeholder"}
MentionsOf(toks, t) ==
  LET sel == SelectSeq(toks, LAMBDA tk : tk.t = t /\ tk.v \in MentionKeys)
  IN [i \in 1..Len(sel) |-> sel[i].v]

\* C34: the output of _clean_message_for_display holds none of the
\* internal tags ([DONE], [SEARCH:..], [READ_FILE:..], [EDIT_FILE:..], ...)
\* and no "[File ..: path]" placeholder, and every handoff tag of the input
\* is in the output as its @mention.
C34_CleanedHasNoInternalTag ==
  Displayed
    => /\ \A i \in 1..Len(probe.cleaned) : probe.cleaned[i].t \notin InternalTypes
       /\ MentionsOf(probe.cleaned, "mention") = MentionsOf(probe.text, "tag")

\* The text in which every replaced range has given way to its own
\* placeholder and everything else is as it was.
RECURSIVE Replaced(_, _, _)
Replaced(out, reps, i) ==
  IF i > Len(out) THEN <<>>
  ELSE LET R == {k \in 1..Len(reps) : reps[k].from = i}
       IN IF R = {}
          THEN [k \in 1..Width(out[i].t) |-> <<i, k>>] \o Replaced(out, reps, i + 1)
          ELSE LET r == reps[CHOOSE k \in R : TRUE]
               IN [k \in 1..Width("File " \o r.action) |-> <<i, 0 - k>>]
                  \o Replaced(out, reps, r.to + 1)

\* C39: for a response with several file cues, applying the turn's
\* placeholder replacements gives a text in which each cue-and-block range
\* is replaced by its own placeholder, no character of a code block is left,
\* and the text outside the ranges is unchanged and in its order.
C39_ReplacementsKeepTheRest ==
  (Displayed /\ probe.reps # <<>>)
    => probe.temp_clean = Replaced(probe.text, probe.reps, 1)

Registered(a) == a \in Agents

\* C35: the current agent name of the turn loop is always a key of the
\* agents map: every target of a handoff cue, every agent on the handoff
\* queue, every stashed last_handoff and every next_agent of
\* handle_approval_signal is a registered agent, and the lookup at the start
\* of a turn never misses.
C35_AgentsAreRegistered ==
  /\ pc \in {"top", "streaming"} => Registered(current_agent_name)
  /\ \A i \in 1..Len(handoff_queue) : Registered(handoff_queue[i])
  /\ last_handoff # None => Registered(last_handoff)
  /\ (approval.called /\ approval.next_agent # None) => Registered(approval.next_agent)
  /\ ~LookupFailed

\* the approved pause had stashed the head of the handoff queue
StashedQueueHead ==
  /\ Approved /\ AfterPause /\ ~FoundProjectComplete
  /\ ~HasHandoffCue(approval.turn.cues)
  /\ approval.queue # <<>>
  /\ approval.last_handoff = Head(approval.queue)

\* C36: an agent taken from the handoff queue to run next is removed from
\* the queue at that moment: after a turn paused for file review with no
\* handoff cue and stashed the queue head H, the approval resumes with H and
\* H has left handoff_queue.
C36_ResumedHeadLeavesQueue ==
  StashedQueueHead
    => /\ approval.next_agent = Head(approval.queue)
       /\ handoff_queue = Tail(approval.queue)

ActiveLoops ==
  IF probe.op = "ws" THEN {i \in 1..Len(probe.tasks) : probe.tasks[i] = "running"} ELSE {}

\* C37: at most one turn loop is active on the orchestrator at any time:
\* while a process_message_stream call started from the websocket is
\* running, a chat message or an approval_done message does not start a
\* second one that runs interleaved with it.
C37_OneActiveLoop == Cardinality(ActiveLoops) <= 1

\* a call of process_message_stream has returned: its events are complete
CallReturned == pc = "idle" /\ events # <<>>

StartTurns == SelectSeq(events, LAMBDA e : e.type = "agent_start")

\* C38: every call of process_message_stream that returns emits exactly one
\* complete event, it is the last event of the call, and its turns field is
\* the number of agent_start events of the call, whose turn numbers are
\* 1, 2, ..., turns in order, on every exit path.
C38_OneCompleteEvent ==
  CallReturned =>
    /\ CountType(events, "complete") = 1
    /\ LastEvent.type = "complete"
    /\ LastEvent.n = Len(StartTurns)
    /\ \A i \in 1..Len(StartTurns) : StartTurns[i].n = i

\* the chunks received so far are split and the stream has not ended
Streaming == probe.op = "think" /\ ~probe.flushed

\* content ends in a non-empty proper prefix of "<think>"
EndsInPartialStart(content) ==
  \E k \in 1..(Len(start_tag) - 1) :
    /\ k <= Len(content)
    /\ SubSeq(content, Len(content) - k + 1, Len(content)) = SubSeq(start_tag, 1, k)

\* while inside a thought, a thought event streamed before the end tag was
\* seen left the last len("</think>") - 1 characters in the buffer
ThoughtTailWithheld ==
  (/\ Streaming
   /\ probe.in_thought
   /\ probe.yielded # <<>>
   /\ probe.yielded[Len(probe.yielded)].type = "thought"
   /\ probe.yielded[Len(probe.yielded)].content # <<>>)
    => Len(probe.buffer) = Len(end_tag) - 1

\* C40: no message event emitted by the splitter before the end of the
\* stream has content that ends in a non-empty proper prefix of "<think>",
\* and while inside a thought the last len("</think>") - 1 buffered
\* characters are withheld.
C40_NoPartialTagEmitted ==
  /\ Streaming =>
       \A i \in 1..Len(probe.yielded) :
         probe.yielded[i].type = "message" => ~EndsInPartialStart(probe.yielded[i].content)
  /\ ThoughtTailWithheld

\* C40 (amended): a message event emitted before the end of the stream ends
\* in a non-empty proper prefix of "<think>" only when a "<" followed it in
\* the buffer (the start of the complete tag or of a withheld prefix), so
\* that no later chunk can complete it; a prefix at the very end of the
\* buffer is withheld. While inside a thought the last len("</think>") - 1
\* buffered characters are withheld.
C40_NoPartialTagEmittedAtBufferEnd ==
  /\ Streaming =>
       /\ \A i \in 1..Len(probe.yielded) :
            (probe.yielded[i].type = "message" /\ EndsInPartialStart(probe.yielded[i].content))
              => probe.yielded[i].follows = "<"
       /\ ~probe.in_thought =>
            \E k \in 0..(Len(start_tag) - 1) : probe.buffer = SubSeq(start_tag, 1, k)
  /\ ThoughtTailWithheld

\* a message was emitted while the beginning of a start tag stayed in the
\* buffer, the tag was completed by a later chunk, and the thought that
\* followed was streamed with its tail withheld
C40_Witness ==
  /\ Streaming
  /\ probe.partial
  /\ probe.in_thought
  /\ probe.message # <<>>
  /\ probe.yielded # <<>>
  /\ probe.yielded[Len(probe.yielded)].type = "thought"
  /\ probe.yielded[Len(probe.yielded)].content # <<>>
  /\ Len(probe.buffer) = Len(end_tag) - 1

====
